---- MODULE Spec2Model ----
(***************************************************************************)
(* Checkpoint and rollback engine of Querty-OS (core/snapshot_system and   *)
(* core/snapshot-system): the RollbackManager, the IncrementalBackup       *)
(* engine, the FilesystemSnapshot archiver and the SnapshotSystem, as      *)
(* state machines.                                                         *)
(*                                                                         *)
(* The four components share no state in the source (the manager never     *)
(* calls the others), so each has specifications of its own over the same  *)
(* variables: SpecRollbackSeq, SpecRollbackPoints, SpecRollbackVerify,     *)
(* SpecRollbackCancel, SpecRollbackFail and SpecRollback for the manager;  *)
(* SpecBackup, SpecBackupCreate, SpecBackupExclude, SpecBackupRestore,     *)
(* SpecBackupFail, SpecBackupVerify, SpecBackupLoss, SpecBackupDelete,     *)
(* SpecBackupRace and SpecDetect for the backup engine; SpecSnapshot,      *)
(* SpecSnapshotExclude, SpecSnapshotFail, SpecMirror, SpecCleanup and      *)
(* SpecConcurrentCreate for the archiver; SpecSystem for the               *)
(* SnapshotSystem.                                                         *)
(***************************************************************************)
EXTENDS Integers, Sequences, FiniteSets, TLC

(***************************************************************************)
(* Bounds of the model.                                                    *)
(***************************************************************************)
MaxClock == 1
MaxPoints == 1
MaxOps == 1
MaxConcurrentOps == 2

Threads == {"t1", "t2"}
UserNames == {"a"}
ConfigPaths == {"cfg"}

(***************************************************************************)
(* Values standing for Python's None, one per type.                        *)
(***************************************************************************)
NoId == <<"none">>
NoStr == "None"
NoTime == -1

(***************************************************************************)
(* RollbackState, RollbackScope, SafetyCheckType (the enums).              *)
(***************************************************************************)
RollbackState ==
    {"pending", "validating", "in_progress", "completed", "failed", "cancelled"}

RollbackScope == {"filesystem", "application", "configuration", "full_system"}

SafetyCheckType ==
    {"disk_space", "system_load", "running_processes", "network_connectivity",
     "backup_integrity"}

(***************************************************************************)
(* Identifiers.  The source takes the first 16 hex digits of a SHA-256 of  *)
(* "<name>:<clock reading>" (points) and "<point id>:<clock reading>"      *)
(* (operations): equal inputs give equal ids, and different inputs are     *)
(* taken to give different ids, so an id is modelled by its hash input.    *)
(***************************************************************************)
PointId(name, t) == <<"pt", name, t>>

OperationId(point_id, t) == <<"op", point_id, t>>

UserName(n) == <<"user", n>>

PreRollbackName(operation_id) == <<"pre_rollback", operation_id>>

(***************************************************************************)
(* Inputs of create_rollback_point: scope and the optional references.     *)
(***************************************************************************)
PointInputs ==
    { [scope |-> "filesystem", snapshot_id |-> "s1", backup_id |-> NoStr,
       config_backup |-> NoStr],
      [scope |-> "application", snapshot_id |-> NoStr, backup_id |-> "b1",
       config_backup |-> NoStr],
      [scope |-> "configuration", snapshot_id |-> NoStr, backup_id |-> NoStr,
       config_backup |-> "cfg"] }

GhostPoint == PointId(UserName("ghost"), 0)

(***************************************************************************)
(* What the built-in checkers find when they run: the outcome of df, of     *)
(* reading /proc/loadavg and of ps ("error": the tool cannot be run).       *)
(***************************************************************************)
Environments ==
    { [disk |-> "ok", load |-> "ok", ps |-> "ok"],
      [disk |-> "critical", load |-> "high", ps |-> "ok"],
      [disk |-> "error", load |-> "error", ps |-> "error"] }

CustomCheckers == {"custom_raise"}

RegisterKinds == {"backup_integrity"}

VARIABLES
    now,                    \* the reading datetime.now() gives
    configExists,           \* the configuration-copy paths present on disk
    require_safety_checks,  \* RollbackManager.require_safety_checks
    auto_create_checkpoint, \* RollbackManager.auto_create_checkpoint
    safety_checkers,        \* RollbackManager.safety_checkers: kind -> checker
    rollback_points,        \* RollbackManager.rollback_points: id -> RollbackPoint
    opObj,                  \* the RollbackOperation objects, in creation order
    operations,             \* RollbackManager.operations: id -> object (index in opObj)
    thr,                    \* per caller: position in its call, locals, last outcome
    restore_calls,          \* restore calls the manager made on the two engines
    hist                    \* what has happened to each operation object so far

rollbackVars ==
    <<now, configExists, require_safety_checks, auto_create_checkpoint,
      safety_checkers, rollback_points, opObj, operations, thr, restore_calls,
      hist>>

\* The trees on disk: the directory the engines capture and the destination
\* of their restores.
VARIABLES source, dest

\* IncrementalBackup: the manifest index (in insertion order, as the dict
\* keeps it), the backup storage directories and the outcome of the last
\* call; captured remembers the tree each backup was taken of.
VARIABLES manifests, storage, bkres, captured

backupVars == <<manifests, storage, bkres, captured>>

\* FilesystemSnapshot: the snapshot index (in insertion order), the archive
\* files in the snapshot directory and the outcome of the last call.
VARIABLES snapshots, archives, snres

snapshotVars == <<snapshots, archives, snres>>

\* IncrementalBackup._detect_changes called on its own: the two indices it is
\* given and the three sets it returns.
VARIABLES detect

detectVars == <<detect>>

\* Callers of create_tar_snapshot that run at the same time: where each one
\* is in the function and what it holds in its local variables.
VARIABLES callers

\* A create_backup and a delete_backup that run at the same time on one
\* IncrementalBackup: where each is and what it holds in its locals.
VARIABLES racers

\* SnapshotSystem: its snapshot index, last_known_good and current_snapshot
\* (the fields of system) and the outcome of the last call on it.
VARIABLES system, sysres

systemVars == <<system, sysres>>

callVars == <<callers, racers, systemVars>>

storeVars == <<source, dest, backupVars, snapshotVars, detectVars, callVars>>

vars == <<rollbackVars, storeVars>>

Put(f, k, v) == [x \in DOMAIN f \cup {k} |-> IF x = k THEN v ELSE f[x]]

Drop(f, k) == [x \in DOMAIN f \ {k} |-> f[x]]

EmptyMap == [x \in {} |-> 0]

(***************************************************************************)
(* A caller between calls.  call/point_id/force/skip are the arguments of  *)
(* its current or last call, result and error_code its outcome.            *)
(***************************************************************************)
NoPoint ==
    [name |-> <<"none", "none">>, scope |-> "none", snapshot_id |-> NoStr,
     backup_id |-> NoStr, config_backup |-> NoStr, verified |-> FALSE]

NoBasis == [point |-> NoPoint, config |-> {}]

IdleThread ==
    [pc |-> "idle", call |-> "none", point_id |-> NoId, operation_id |-> NoId,
     force |-> FALSE, skip |-> FALSE, op |-> 0, scope |-> "none",
     result |-> "none", error_code |-> "none", failed |-> {},
     seen |-> "none", after |-> "none", basis |-> NoBasis, repeat |-> 0]

(***************************************************************************)
(* RollbackManager.__init__ and _register_default_safety_checkers.         *)
(***************************************************************************)
DefaultSafetyCheckers ==
    [k \in {"disk_space", "system_load", "running_processes"} |-> "builtin"]

InitRollback ==
    /\ now = 0
    /\ configExists \in SUBSET ConfigPaths
    /\ require_safety_checks \in BOOLEAN
    /\ auto_create_checkpoint \in BOOLEAN
    /\ safety_checkers = DefaultSafetyCheckers
    /\ rollback_points = EmptyMap
    /\ opObj = <<>>
    /\ operations = EmptyMap
    /\ thr = [t \in Threads |-> IdleThread]
    /\ restore_calls = {}
    /\ hist = [in_progress |-> {}, cancelled |-> {}]

(***************************************************************************)
(* The environment: the clock advances, a configuration copy disappears.   *)
(***************************************************************************)
Tick ==
    /\ now < MaxClock
    /\ now' = now + 1
    /\ UNCHANGED <<configExists, require_safety_checks, auto_create_checkpoint,
                   safety_checkers, rollback_points, opObj, operations, thr,
                   restore_calls, hist>>
    /\ UNCHANGED storeVars

RemoveConfig(p) ==
    /\ p \in configExists
    /\ configExists' = configExists \ {p}
    /\ UNCHANGED <<now, require_safety_checks, auto_create_checkpoint,
                   safety_checkers, rollback_points, opObj, operations, thr,
                   restore_calls, hist>>
    /\ UNCHANGED storeVars

(***************************************************************************)
(* The built-in checkers and run_safety_checks.  A check result is         *)
(* [passed, message]; the results of one pass are a map kind -> result.    *)
(***************************************************************************)
CheckDiskSpace(env) ==
    CASE env.disk = "critical" -> [passed |-> FALSE, message |-> "critical"]
      [] env.disk = "ok" -> [passed |-> TRUE, message |-> "sufficient"]
      [] env.disk = "unparsed" -> [passed |-> TRUE, message |-> "unable to parse"]
      [] OTHER -> [passed |-> TRUE, message |-> "skipped"]

CheckSystemLoad(env) ==
    CASE env.load = "high" -> [passed |-> FALSE, message |-> "high"]
      [] env.load = "ok" -> [passed |-> TRUE, message |-> "acceptable"]
      [] OTHER -> [passed |-> TRUE, message |-> "skipped"]

CheckRunningProcesses(env) ==
    IF env.ps = "ok"
    THEN [passed |-> TRUE, message |-> "passed"]
    ELSE [passed |-> TRUE, message |-> "skipped"]

BuiltinChecker(kind, env) ==
    CASE kind = "disk_space" -> CheckDiskSpace(env)
      [] kind = "system_load" -> CheckSystemLoad(env)
      [] OTHER -> CheckRunningProcesses(env)

\* One entry of the loop of run_safety_checks: a checker that raises is
\* recorded as failed.
RunChecker(kind, checker, env) ==
    CASE checker = "builtin" -> BuiltinChecker(kind, env)
      [] checker = "custom_pass" -> [passed |-> TRUE, message |-> "custom"]
      [] checker = "custom_fail" -> [passed |-> FALSE, message |-> "custom"]
      [] OTHER -> [passed |-> FALSE, message |-> "exception"]

RunSafetyChecks(env) ==
    [k \in DOMAIN safety_checkers |-> RunChecker(k, safety_checkers[k], env)]

\* FailedChecks naming every check that ran.
AllChecks(results) == DOMAIN results

FailedChecks(results) == {k \in DOMAIN results : ~results[k].passed}

(***************************************************************************)
(* register_safety_checker, create_rollback_point, delete_rollback_point:  *)
(* short calls, taken as one step each.                                    *)
(***************************************************************************)
RegisterSafetyChecker(kind, checker) ==
    /\ safety_checkers' = Put(safety_checkers, kind, checker)
    /\ UNCHANGED <<now, configExists, require_safety_checks,
                   auto_create_checkpoint, rollback_points, opObj, operations,
                   thr, restore_calls, hist>>
    /\ UNCHANGED storeVars

NewPoint(name, scope, snapshot_id, backup_id, config_backup) ==
    [name |-> name, scope |-> scope, snapshot_id |-> snapshot_id,
     backup_id |-> backup_id, config_backup |-> config_backup,
     verified |-> FALSE]

UserPoints == {p \in DOMAIN rollback_points : p[2][1] = "user"}

CreateRollbackPoint(n, inp) ==
    /\ Cardinality(UserPoints) < MaxPoints
    /\ rollback_points' =
           Put(rollback_points, PointId(UserName(n), now),
               NewPoint(UserName(n), inp.scope, inp.snapshot_id, inp.backup_id,
                        inp.config_backup))
    /\ UNCHANGED <<now, configExists, require_safety_checks,
                   auto_create_checkpoint, safety_checkers, opObj, operations,
                   thr, restore_calls, hist>>
    /\ UNCHANGED storeVars

DeleteRollbackPoint(p) ==
    /\ p \in DOMAIN rollback_points
    /\ rollback_points' = Drop(rollback_points, p)
    /\ UNCHANGED <<now, configExists, require_safety_checks,
                   auto_create_checkpoint, safety_checkers, opObj, operations,
                   thr, restore_calls, hist>>
    /\ UNCHANGED storeVars

(***************************************************************************)
(* verify_rollback_point: only the configuration copy is looked up on      *)
(* disk; the snapshot and backup references are not checked.               *)
(***************************************************************************)
\* VerifyValid answering from the flag the last verification stored.
VerifyFlips(p) == ~rollback_points[p].verified

VerifyValid(p) ==
    LET point == rollback_points[p]
    IN  ~(point.config_backup # NoStr /\ point.config_backup \notin configExists)

(***************************************************************************)
(* What a verification can depend on: the point as it stands (its verified *)
(* flag aside) and the configuration copies on disk.  A caller remembers   *)
(* the basis of its last verify_rollback_point call and how many calls in  *)
(* a row (2 standing for two or more) it has made on that same basis.      *)
(***************************************************************************)
VerifyBasis(p) ==
    [point |-> IF p \in DOMAIN rollback_points
               THEN [rollback_points[p] EXCEPT !.verified = FALSE]
               ELSE NoPoint,
     config |-> configExists]

VerifyRepeat(t, p) ==
    IF /\ thr[t].call = "verify"
       /\ thr[t].point_id = p
       /\ thr[t].basis = VerifyBasis(p)
    THEN 2 ELSE 1

VerifyRollbackPoint(t, p) ==
    /\ thr[t].pc = "idle"
    /\ IF p \notin DOMAIN rollback_points
       THEN /\ thr' = [thr EXCEPT ![t] =
                   [IdleThread EXCEPT !.call = "verify", !.point_id = p,
                                      !.result = "False",
                                      !.basis = VerifyBasis(p),
                                      !.repeat = VerifyRepeat(t, p)]]
            /\ UNCHANGED rollback_points
       ELSE /\ rollback_points' =
                   [rollback_points EXCEPT ![p].verified = VerifyValid(p)]
            /\ thr' = [thr EXCEPT ![t] =
                   [IdleThread EXCEPT !.call = "verify", !.point_id = p,
                       !.result = IF VerifyValid(p) THEN "True" ELSE "False",
                       !.basis = VerifyBasis(p),
                       !.repeat = VerifyRepeat(t, p)]]
    /\ UNCHANGED <<now, configExists, require_safety_checks,
                   auto_create_checkpoint, safety_checkers, opObj, operations,
                   restore_calls, hist>>
    /\ UNCHANGED storeVars

(***************************************************************************)
(* initiate_rollback, one step per access to the shared records: the       *)
(* source holds no lock, so callers interleave between these steps.        *)
(***************************************************************************)
NewOperation(operation_id, point_id) ==
    [operation_id |-> operation_id, point_id |-> point_id, state |-> "pending",
     completed_at |-> NoTime, safety_checks |-> EmptyMap,
     error_message |-> NoStr, pre_rollback_point |-> NoId]

\* Lines 436 and 455: where the call goes once the operation exists, and
\* once the safety gate has let it through.
SafetyChecksRun(skip) == ~skip /\ require_safety_checks

\* AfterGate going straight on to the restore.
AfterGateSkipsCheckpoint == "begin"

AfterGate == IF auto_create_checkpoint THEN "checkpoint" ELSE "begin"

\* VerificationLetsThrough with the verification result ignored.
VerificationIgnored(valid, force) == TRUE

\* Line 409-410: the call goes on when the point verifies or force is set.
VerificationLetsThrough(valid, force) == valid \/ force

\* GateBlocks with the sense of force inverted.
GateBlocksWhenForced(failed, force) == failed # {} /\ force

\* Line 445: the gate stops the call when a check failed and force is unset.
GateBlocks(failed, force) == failed # {} /\ ~force

Raised(call, p, force, skip, code) ==
    [IdleThread EXCEPT !.call = call, !.point_id = p, !.force = force,
                       !.skip = skip, !.result = "raised", !.error_code = code]

\* Lines 399-432: look the point up, verify it, create and index the
\* operation (PENDING).
InitiateStart(t, p, force, skip) ==
    /\ thr[t].pc = "idle"
    /\ IF p \notin DOMAIN rollback_points
       THEN /\ thr' = [thr EXCEPT ![t] =
                   Raised("initiate", p, force, skip, "POINT_NOT_FOUND")]
            /\ UNCHANGED <<rollback_points, opObj, operations>>
       ELSE /\ rollback_points' =
                   [rollback_points EXCEPT ![p].verified = VerifyValid(p)]
            /\ IF ~VerificationLetsThrough(VerifyValid(p), force)
               THEN /\ thr' = [thr EXCEPT ![t] =
                           Raised("initiate", p, force, skip,
                                  "VERIFICATION_FAILED")]
                    /\ UNCHANGED <<opObj, operations>>
               ELSE /\ opObj' = Append(opObj,
                                       NewOperation(OperationId(p, now), p))
                    /\ operations' =
                           Put(operations, OperationId(p, now), Len(opObj) + 1)
                    /\ thr' = [thr EXCEPT ![t] =
                           [IdleThread EXCEPT
                               !.pc = IF SafetyChecksRun(skip)
                                      THEN "validate" ELSE AfterGate,
                               !.call = "initiate", !.point_id = p,
                               !.operation_id = OperationId(p, now),
                               !.force = force, !.skip = skip,
                               !.op = Len(opObj) + 1,
                               !.scope = rollback_points[p].scope,
                               !.result = "running"]]
    /\ UNCHANGED <<now, configExists, require_safety_checks,
                   auto_create_checkpoint, safety_checkers, restore_calls, hist>>
    /\ UNCHANGED storeVars

\* Line 437.
SetValidating(t) ==
    /\ thr[t].pc = "validate"
    /\ opObj' = [opObj EXCEPT ![thr[t].op].state = "validating"]
    /\ thr' = [thr EXCEPT ![t].pc = "checks"]
    /\ UNCHANGED <<now, configExists, require_safety_checks,
                   auto_create_checkpoint, safety_checkers, rollback_points,
                   operations, restore_calls, hist>>
    /\ UNCHANGED storeVars

\* Lines 440-452 and, when the gate raises, the handler at 477-482.
SafetyGate(t, env) ==
    /\ thr[t].pc = "checks"
    /\ LET results == RunSafetyChecks(env)
           failed == FailedChecks(results)
       IN  IF GateBlocks(failed, thr[t].force)
           THEN /\ opObj' = [opObj EXCEPT
                       ![thr[t].op].safety_checks = results,
                       ![thr[t].op].state = "failed",
                       ![thr[t].op].error_message = "Safety checks failed",
                       ![thr[t].op].completed_at = now]
                /\ thr' = [thr EXCEPT ![t].pc = "idle",
                                      ![t].result = "raised",
                                      ![t].error_code = "SAFETY_CHECK_FAILED",
                                      ![t].failed = failed]
           ELSE /\ opObj' = [opObj EXCEPT ![thr[t].op].safety_checks = results]
                /\ thr' = [thr EXCEPT ![t].pc = AfterGate]
    /\ UNCHANGED <<now, configExists, require_safety_checks,
                   auto_create_checkpoint, safety_checkers, rollback_points,
                   operations, restore_calls, hist>>
    /\ UNCHANGED storeVars

\* Lines 455-462: the pre-rollback checkpoint, a point with no references.
CreateCheckpoint(t) ==
    /\ thr[t].pc = "checkpoint"
    /\ LET name == PreRollbackName(thr[t].operation_id)
       IN  /\ rollback_points' =
                  Put(rollback_points, PointId(name, now),
                      NewPoint(name, thr[t].scope, NoStr, NoStr, NoStr))
           /\ opObj' = [opObj EXCEPT
                  ![thr[t].op].pre_rollback_point = PointId(name, now)]
    /\ thr' = [thr EXCEPT ![t].pc = "begin"]
    /\ UNCHANGED <<now, configExists, require_safety_checks,
                   auto_create_checkpoint, safety_checkers, operations,
                   restore_calls, hist>>
    /\ UNCHANGED storeVars

\* BeginExecute without its write of IN_PROGRESS.
BeginExecuteUnmarked(t) ==
    /\ thr[t].pc = "begin"
    /\ thr' = [thr EXCEPT ![t].pc = "execute"]
    /\ UNCHANGED <<now, configExists, require_safety_checks,
                   auto_create_checkpoint, safety_checkers, rollback_points,
                   opObj, operations, restore_calls, hist>>
    /\ UNCHANGED storeVars

\* Line 465.
BeginExecute(t) ==
    /\ thr[t].pc = "begin"
    /\ opObj' = [opObj EXCEPT ![thr[t].op].state = "in_progress"]
    /\ hist' = [hist EXCEPT !.in_progress = @ \cup {thr[t].op}]
    /\ thr' = [thr EXCEPT ![t].pc = "execute"]
    /\ UNCHANGED <<now, configExists, require_safety_checks,
                   auto_create_checkpoint, safety_checkers, rollback_points,
                   operations, restore_calls>>
    /\ UNCHANGED storeVars

\* _execute_rollback: the restore calls it makes on the two engines.  Every
\* branch only logs what it would restore and sleeps.
ExecuteRollback(scope, point_id) ==
    CASE scope = "filesystem" -> {}
      [] scope = "application" -> {}
      [] scope = "configuration" -> {}
      [] OTHER -> {}

\* CompleteRollback without its write of the end timestamp.
CompleteRollbackUntimed(t) ==
    /\ thr[t].pc = "execute"
    /\ restore_calls' =
           restore_calls \cup ExecuteRollback(thr[t].scope, thr[t].point_id)
    /\ opObj' = [opObj EXCEPT ![thr[t].op].state = "completed"]
    /\ thr' = [thr EXCEPT ![t].pc = "idle", ![t].result = "returned"]
    /\ UNCHANGED <<now, configExists, require_safety_checks,
                   auto_create_checkpoint, safety_checkers, rollback_points,
                   operations, hist>>
    /\ UNCHANGED storeVars

\* Lines 470-475.
CompleteRollback(t) ==
    /\ thr[t].pc = "execute"
    /\ restore_calls' =
           restore_calls \cup ExecuteRollback(thr[t].scope, thr[t].point_id)
    /\ opObj' = [opObj EXCEPT ![thr[t].op].state = "completed",
                              ![thr[t].op].completed_at = now]
    /\ thr' = [thr EXCEPT ![t].pc = "idle", ![t].result = "returned"]
    /\ UNCHANGED <<now, configExists, require_safety_checks,
                   auto_create_checkpoint, safety_checkers, rollback_points,
                   operations, hist>>
    /\ UNCHANGED storeVars

InFlight == {"validate", "checks", "checkpoint", "begin", "execute"}

\* RaiseInFlight with the exception passing through unhandled.
RaiseUnhandled(t) ==
    /\ thr[t].pc \in InFlight
    /\ thr' = [thr EXCEPT ![t].pc = "idle", ![t].result = "raised",
                          ![t].error_code = "EXCEPTION"]
    /\ UNCHANGED <<now, configExists, require_safety_checks,
                   auto_create_checkpoint, safety_checkers, rollback_points,
                   opObj, operations, restore_calls, hist>>
    /\ UNCHANGED storeVars

\* Lines 477-482: a statement of the try block raises; the handler marks
\* the operation FAILED and re-raises.
RaiseInFlight(t) ==
    /\ thr[t].pc \in InFlight
    /\ opObj' = [opObj EXCEPT ![thr[t].op].state = "failed",
                              ![thr[t].op].error_message = "exception",
                              ![thr[t].op].completed_at = now]
    /\ thr' = [thr EXCEPT ![t].pc = "idle", ![t].result = "raised",
                          ![t].error_code = "EXCEPTION"]
    /\ UNCHANGED <<now, configExists, require_safety_checks,
                   auto_create_checkpoint, safety_checkers, rollback_points,
                   operations, restore_calls, hist>>
    /\ UNCHANGED storeVars

(***************************************************************************)
(* cancel_rollback: the state is read (line 541) and then written (545).   *)
(***************************************************************************)
\* Cancellable with IN_PROGRESS let through.
CancellableWhileRunning(state) ==
    state \in {"pending", "validating", "in_progress"}

Cancellable(state) == state \in {"pending", "validating"}

GhostOperation == OperationId(GhostPoint, 0)

CancelCheck(t, operation_id) ==
    /\ thr[t].pc = "idle"
    /\ IF operation_id \notin DOMAIN operations
       THEN thr' = [thr EXCEPT ![t] =
                [IdleThread EXCEPT !.call = "cancel",
                                   !.operation_id = operation_id,
                                   !.result = "False"]]
       ELSE LET op == operations[operation_id]
            IN  IF ~Cancellable(opObj[op].state)
                THEN thr' = [thr EXCEPT ![t] =
                         [IdleThread EXCEPT !.call = "cancel",
                                            !.operation_id = operation_id,
                                            !.op = op,
                                            !.seen = opObj[op].state,
                                            !.after = opObj[op].state,
                                            !.result = "False"]]
                ELSE thr' = [thr EXCEPT ![t] =
                         [IdleThread EXCEPT !.pc = "cancel_set",
                                            !.call = "cancel",
                                            !.operation_id = operation_id,
                                            !.op = op,
                                            !.seen = opObj[op].state,
                                            !.result = "running"]]
    /\ UNCHANGED <<now, configExists, require_safety_checks,
                   auto_create_checkpoint, safety_checkers, rollback_points,
                   opObj, operations, restore_calls, hist>>
    /\ UNCHANGED storeVars

CancelSet(t) ==
    /\ thr[t].pc = "cancel_set"
    /\ opObj' = [opObj EXCEPT ![thr[t].op].state = "cancelled",
                              ![thr[t].op].completed_at = now]
    /\ hist' = [hist EXCEPT !.cancelled = @ \cup {thr[t].op}]
    /\ thr' = [thr EXCEPT ![t].pc = "idle",
                          ![t].after = opObj'[thr[t].op].state,
                          ![t].result = "True"]
    /\ UNCHANGED <<now, configExists, require_safety_checks,
                   auto_create_checkpoint, safety_checkers, rollback_points,
                   operations, restore_calls>>
    /\ UNCHANGED storeVars

(***************************************************************************)
(* The trees on disk.  A path is the sequence of its characters, so that   *)
(* the substring test of the exclude patterns can be computed; a tree maps *)
(* the paths of its regular files to their contents.                       *)
(***************************************************************************)
Paths == {<<"a">>, <<"d", "/", "a">>}

Contents == {"x", "y"}

Trees == UNION {[S -> Contents] : S \in SUBSET Paths}

NoDirectory == [exists |-> FALSE, files |-> EmptyMap]

EmptyDirectory == [exists |-> TRUE, files |-> EmptyMap]

InitTrees ==
    /\ source = EmptyDirectory
    /\ dest = NoDirectory

\* A file of the source tree is written (created or changed).
WriteFile(p, c) ==
    /\ source' = [exists |-> TRUE, files |-> Put(source.files, p, c)]
    /\ source' # source
    /\ UNCHANGED <<dest, backupVars, rollbackVars,
                   snapshotVars, detectVars, callVars>>

\* A file of the source tree is removed.
RemoveFile(p) ==
    /\ p \in DOMAIN source.files
    /\ source' = [source EXCEPT !.files = Drop(source.files, p)]
    /\ UNCHANGED <<dest, backupVars, rollbackVars,
                   snapshotVars, detectVars, callVars>>

\* The source tree is deleted as a whole.
RemoveSource ==
    /\ source.exists
    /\ source' = NoDirectory
    /\ UNCHANGED <<dest, backupVars, rollbackVars,
                   snapshotVars, detectVars, callVars>>

\* The restore destination is removed, so that the next restore starts from
\* a directory that does not exist.
ClearDest ==
    /\ dest.exists
    /\ dest' = NoDirectory
    /\ UNCHANGED <<source, backupVars, rollbackVars,
                   snapshotVars, detectVars, callVars>>

(***************************************************************************)
(* IncrementalBackup.  _generate_backup_id hashes the clock reading and    *)
(* the size of the manifest index; the id is modelled by that input.  The  *)
(* storage directory of a backup is named after its name and id.          *)
(***************************************************************************)
BackupNames == {"n"}

NoBackup == <<"none", -1, -1>>

BackupId(t, n) == <<"bk", t, n>>

GhostBackup == BackupId(NoTime, 0)

BackupSubdir(name, backup_id) == <<name, backup_id>>

NoPath == <<BackupSubdir(NoStr, NoBackup), <<>>>>

BackupPath(dir, path) == <<dir, path>>

Md5(c) == <<"md5", c>>

Size(c) == IF c = "x" THEN 1 ELSE 2

\* The manifest index is a Python dict: a key that is assigned again keeps
\* its place, a new key goes last.
Ids(ms) == {ms[i].backup_id : i \in DOMAIN ms}

Manifest(ms, backup_id) ==
    ms[CHOOSE i \in DOMAIN ms : ms[i].backup_id = backup_id]

DictPut(ms, m) ==
    IF m.backup_id \in Ids(ms)
    THEN [i \in DOMAIN ms |-> IF ms[i].backup_id = m.backup_id THEN m ELSE ms[i]]
    ELSE Append(ms, m)

DictDel(ms, backup_id) ==
    SelectSeq(ms, LAMBDA m : m.backup_id # backup_id)

IdleBackup ==
    [call |-> "none", backup_id |-> NoBackup, result |-> "none",
     error_code |-> "none"]

InitBackup ==
    /\ manifests = <<>>
    /\ storage = EmptyMap
    /\ bkres = IdleBackup
    /\ captured = EmptyMap


\* _scan_directory: the index of the regular files under the source.
FileMetadata(path, c) ==
    [path |-> path, size |-> Size(c), checksum |-> Md5(c), backed_up |-> FALSE,
     backup_path |-> NoPath]

ScanDirectory(tree) == [p \in DOMAIN tree |-> FileMetadata(p, tree[p])]

\* "pattern not in k": the pattern occurs nowhere in the path.
IsSubstring(pattern, k) ==
    \E i \in 0..(Len(k) - Len(pattern)) :
        SubSeq(k, i + 1, i + Len(pattern)) = pattern

ExcludePatterns == {<<>>, << <<"d">> >>}

RECURSIVE ApplyExclusions(_, _)
ApplyExclusions(index, patterns) ==
    IF patterns = <<>>
    THEN index
    ELSE ApplyExclusions(
             [k \in {q \in DOMAIN index : ~IsSubstring(Head(patterns), q)}
                  |-> index[k]],
             Tail(patterns))

\* DetectChanges deciding by size and modification time.
DetectChangesByStat(current_index, previous_index) ==
    LET current_files == DOMAIN current_index
        previous_files == DOMAIN previous_index
    IN  [new_files |-> current_files \ previous_files,
         deleted_files |-> previous_files \ current_files,
         modified_files |->
             {f \in current_files \cap previous_files :
                  \/ current_index[f].size # previous_index[f].size
                  \/ current_index[f].mtime # previous_index[f].mtime}]

\* _detect_changes: new, modified and deleted paths.
DetectChanges(current_index, previous_index) ==
    LET current_files == DOMAIN current_index
        previous_files == DOMAIN previous_index
    IN  [new_files |-> current_files \ previous_files,
         deleted_files |-> previous_files \ current_files,
         modified_files |->
             {f \in current_files \cap previous_files :
                  current_index[f].checksum # previous_index[f].checksum}]

(***************************************************************************)
(* _detect_changes on two indices of any content.  An entry of an index    *)
(* is a FileMetadata of which the size, the modification time and the      *)
(* checksum are independent of each other.                                 *)
(***************************************************************************)
DetectPaths == {<<"a">>, <<"b">>}

MaxSize == 2

MaxMtime == 1

Stats ==
    [size : 1..MaxSize, mtime : 0..MaxMtime,
     checksum : {Md5(c) : c \in Contents}]

Indices ==
    UNION {[files -> Stats] : files \in SUBSET DetectPaths}

NoChanges == [new_files |-> {}, modified_files |-> {}, deleted_files |-> {}]

InitDetect ==
    detect = [current_index |-> EmptyMap, previous_index |-> EmptyMap,
              called |-> FALSE, changes |-> NoChanges]

InitDetectInputs ==
    detect \in [current_index : Indices, previous_index : Indices,
                called : {FALSE}, changes : {NoChanges}]

DetectChangesCall ==
    /\ ~detect.called
    /\ detect' = [detect EXCEPT
           !.called = TRUE,
           !.changes = DetectChanges(detect.current_index,
                                     detect.previous_index)]
    /\ UNCHANGED <<source, dest, backupVars, snapshotVars, rollbackVars,
                   callVars>>

RECURSIVE SumSizes(_, _)
SumSizes(index, files) ==
    IF files = {}
    THEN 0
    ELSE LET f == CHOOSE g \in files : TRUE
         IN  index[f].size + SumSizes(index, files \ {f})

(***************************************************************************)
(* create_backup.  fail names the step of the call at which the file       *)
(* system raises: "scan" (_scan_directory), "copy" (shutil.copy2), "save"  *)
(* (writing manifest.json) or "none".                                      *)
(***************************************************************************)
FailPoints == {"none", "scan", "copy", "save"}

Overlay(f, g) ==
    [x \in DOMAIN f \cup DOMAIN g |-> IF x \in DOMAIN g THEN g[x] ELSE f[x]]

NoStorage == [files |-> EmptyMap, manifest |-> FALSE]

BackupOutcome(call, backup_id, result, error_code) ==
    [call |-> call, backup_id |-> backup_id, result |-> result,
     error_code |-> error_code]

\* Changes with the parent ignored: every backup taken as a full one.
ChangesAllNew(current_index, parent_backup_id) ==
    [new_files |-> DOMAIN current_index, modified_files |-> {},
     deleted_files |-> {}]

\* Lines 222-236: the changes against the parent's index, or everything new.
Changes(current_index, parent_backup_id) ==
    IF parent_backup_id # NoBackup /\ parent_backup_id \in Ids(manifests)
    THEN DetectChanges(current_index,
                       Manifest(manifests, parent_backup_id).files)
    ELSE [new_files |-> DOMAIN current_index, modified_files |-> {},
          deleted_files |-> {}]

\* MarkBackedUp marking every file of the index.
MarkAllBackedUp(current_index, files_to_backup, backup_subdir) ==
    [p \in DOMAIN current_index |->
        [current_index[p] EXCEPT
            !.backed_up = TRUE,
            !.backup_path = BackupPath(backup_subdir, p)]]

\* Lines 242-255: the index once the files to back up are copied.
MarkBackedUp(current_index, files_to_backup, backup_subdir) ==
    [p \in DOMAIN current_index |->
        IF p \in files_to_backup
        THEN [current_index[p] EXCEPT
                 !.backed_up = TRUE,
                 !.backup_path = BackupPath(backup_subdir, p)]
        ELSE current_index[p]]

CreateBackup(name, parent_backup_id, exclude_patterns, fail) ==
    LET backup_id == BackupId(now, Len(manifests))
        backup_subdir == BackupSubdir(name, backup_id)
        scanned == ApplyExclusions(ScanDirectory(source.files), exclude_patterns)
        changes == Changes(scanned, parent_backup_id)
        files_to_backup == changes.new_files \cup changes.modified_files
        current_index == MarkBackedUp(scanned, files_to_backup, backup_subdir)
        before == IF backup_subdir \in DOMAIN storage
                  THEN storage[backup_subdir] ELSE NoStorage
        manifest ==
            [backup_id |-> backup_id, name |-> name,
             backup_dir |-> backup_subdir,
             parent_backup_id |-> parent_backup_id, files |-> current_index,
             new_files |-> Cardinality(changes.new_files),
             modified_files |-> Cardinality(changes.modified_files),
             deleted_files |-> Cardinality(changes.deleted_files),
             total_size |-> SumSizes(current_index, files_to_backup)]
    IN  /\ fail = "copy" => files_to_backup # {}
        /\ IF ~source.exists
           THEN /\ bkres' = BackupOutcome("create", NoBackup, "raised",
                                          "SOURCE_NOT_FOUND")
                /\ UNCHANGED <<manifests, storage, captured>>
           ELSE IF fail \in {"scan", "copy"}
           THEN /\ storage' = Drop(storage, backup_subdir)
                /\ bkres' = BackupOutcome("create", backup_id, "raised",
                                          "BACKUP_FAILED")
                /\ UNCHANGED <<manifests, captured>>
           ELSE /\ storage' =
                       Put(storage, backup_subdir,
                           [files |-> Overlay(before.files,
                                              [p \in files_to_backup |->
                                                   source.files[p]]),
                            manifest |-> before.manifest \/ fail # "save"])
                /\ manifests' = DictPut(manifests, manifest)
                /\ captured' = Put(captured, backup_id, source.files)
                /\ bkres' = BackupOutcome("create", backup_id, "returned",
                                          "none")
        /\ UNCHANGED <<source, dest, rollbackVars,
                   snapshotVars, detectVars, callVars>>

(***************************************************************************)
(* restore_backup and get_backup_chain.                                    *)
(***************************************************************************)
\* Lines 381-389 and 509-515: parents are put in front of the chain while
\* they are in the index.  The loop ends only if the parent links do; the
\* empty chain stands for a walk that does not end.
RECURSIVE WalkParents(_, _, _)
WalkParents(ms, chain, steps) ==
    LET parent_id == Manifest(ms, Head(chain)).parent_backup_id
    IN  IF parent_id = NoBackup \/ parent_id \notin Ids(ms)
        THEN chain
        ELSE IF steps = 0
        THEN <<>>
        ELSE WalkParents(ms, <<parent_id>> \o chain, steps - 1)

GetBackupChain(ms, backup_id) ==
    IF backup_id \notin Ids(ms) THEN <<>>
    ELSE WalkParents(ms, <<backup_id>>, Len(ms))

\* RestoreChain with the parents left out.
RestoreTargetOnly(ms, backup_id, incremental_chain) == <<backup_id>>

RestoreChain(ms, backup_id, incremental_chain) ==
    IF incremental_chain
    THEN WalkParents(ms, <<backup_id>>, Len(ms))
    ELSE <<backup_id>>

Stored(st, backup_path) ==
    /\ backup_path[1] \in DOMAIN st
    /\ backup_path[2] \in DOMAIN st[backup_path[1]].files

\* Lines 399-408: every file the manifest marks backed up and that is in
\* the storage is copied over the destination.
CopyBackedUp(manifest, st, tree) ==
    LET present == {p \in DOMAIN manifest.files :
                        /\ manifest.files[p].backed_up
                        /\ Stored(st, manifest.files[p].backup_path)}
    IN  Overlay(tree,
                [p \in present |->
                    st[manifest.files[p].backup_path[1]].files[
                        manifest.files[p].backup_path[2]]])

\* ReplayChain copying the newest backup first and the oldest last.
RECURSIVE ReplayNewestFirst(_, _, _, _)
ReplayNewestFirst(ms, st, chain, tree) ==
    IF chain = <<>>
    THEN tree
    ELSE CopyBackedUp(Manifest(ms, Head(chain)), st,
                      ReplayNewestFirst(ms, st, Tail(chain), tree))

\* Lines 394-408: the chain is replayed from its first element to its last.
RECURSIVE ReplayChain(_, _, _, _)
ReplayChain(ms, st, chain, tree) ==
    IF chain = <<>>
    THEN tree
    ELSE ReplayChain(ms, st, Tail(chain),
                     CopyBackedUp(Manifest(ms, Head(chain)), st, tree))

RestoreBackup(backup_id, incremental_chain) ==
    /\ IF backup_id \notin Ids(manifests)
       THEN /\ bkres' = BackupOutcome("restore", backup_id, "raised",
                                      "BACKUP_NOT_FOUND")
            /\ UNCHANGED dest
       ELSE LET restore_chain ==
                    RestoreChain(manifests, backup_id, incremental_chain)
            IN  IF restore_chain = <<>>
                THEN /\ dest' = [dest EXCEPT !.exists = TRUE]
                     /\ bkres' = BackupOutcome("restore", backup_id,
                                               "diverges", "none")
                ELSE /\ dest' = [exists |-> TRUE,
                                 files |-> ReplayChain(manifests, storage,
                                                       restore_chain,
                                                       dest.files)]
                     /\ bkres' = BackupOutcome("restore", backup_id, "True",
                                               "none")
    /\ UNCHANGED <<source, manifests, storage, captured, rollbackVars,
                   snapshotVars, detectVars, callVars>>

(***************************************************************************)
(* delete_backup.  rmfail is the set of storage directories whose removal  *)
(* raises; a call nested deeper than the interpreter's recursion limit     *)
(* raises in its caller.  Each raise is caught at line 462.                *)
(***************************************************************************)
RecursionLimit == 4

ChildIds(ms, backup_id) ==
    LET children == SelectSeq(ms, LAMBDA m : m.parent_backup_id = backup_id)
    IN  [i \in DOMAIN children |-> children[i].backup_id]

Deleted(ms, st, ok) == [ms |-> ms, st |-> st, ok |-> ok]

RECURSIVE DeleteRec(_, _, _, _, _, _)
RECURSIVE DeleteChildren(_, _, _, _, _)
\* Lines 450-451: the children are deleted in turn, the result of each call
\* is dropped.
DeleteChildren(ms, st, children, rmfail, depth) ==
    IF children = <<>>
    THEN Deleted(ms, st, TRUE)
    ELSE LET r == DeleteRec(ms, st, Head(children), TRUE, rmfail, depth)
         IN  DeleteChildren(r.ms, r.st, Tail(children), rmfail, depth)

DeleteRec(ms, st, backup_id, delete_children, rmfail, depth) ==
    IF backup_id \notin Ids(ms)
    THEN Deleted(ms, st, FALSE)
    ELSE LET manifest == Manifest(ms, backup_id)
             children == ChildIds(ms, backup_id)
         IN  IF children # <<>> /\ ~delete_children
             THEN Deleted(ms, st, FALSE)
             ELSE IF children # <<>> /\ depth = RecursionLimit
             THEN Deleted(ms, st, FALSE)
             ELSE LET r == IF delete_children
                           THEN DeleteChildren(ms, st, children, rmfail,
                                               depth + 1)
                           ELSE Deleted(ms, st, TRUE)
                      backup_dir == manifest.backup_dir
                  IN  IF backup_dir \in DOMAIN r.st /\ backup_dir \in rmfail
                      THEN Deleted(r.ms, r.st, FALSE)
                      ELSE IF backup_id \notin Ids(r.ms)
                      THEN Deleted(r.ms, Drop(r.st, backup_dir), FALSE)
                      ELSE Deleted(DictDel(r.ms, backup_id),
                                   Drop(r.st, backup_dir), TRUE)

DeleteBackup(backup_id, delete_children, rmfail) ==
    LET r == DeleteRec(manifests, storage, backup_id, delete_children, rmfail, 0)
    IN  /\ manifests' = r.ms
        /\ storage' = r.st
        /\ bkres' = BackupOutcome("delete", backup_id,
                                  IF r.ok THEN "True" ELSE "False", "none")
        /\ UNCHANGED <<source, dest, captured, rollbackVars,
                   snapshotVars, detectVars, callVars>>

(***************************************************************************)
(* FilesystemSnapshot.  _generate_snapshot_id hashes the source path, the  *)
(* clock reading and the size of the snapshot index.  An archive file is   *)
(* what tar wrote (its format and its members, named from the source       *)
(* directory's own name down) and whether a byte of it was changed since;  *)
(* _calculate_checksum is the SHA-256 of those bytes.                      *)
(***************************************************************************)
SourcePath == "/s"

SourceName == <<"s">>

SnapshotNames == {"n"}

TarFormats == {"tar.gz"}

NoSnapshot == <<"none", NoStr, -1, -1>>

SnapshotId(source_path, t, n) == <<"snap", source_path, t, n>>

GhostSnapshot == SnapshotId(SourcePath, NoTime, 0)

SnapshotFile(name, snapshot_id, format) == <<name, snapshot_id, format>>

NoChecksum == <<"none">>

Sha256(bytes) == <<"sha256", bytes>>

CalculateChecksum(file) == Sha256(<<file.format, file.members, file.damaged>>)

SnapIds(ss) == {ss[i].snapshot_id : i \in DOMAIN ss}

Snapshot(ss, snapshot_id) ==
    ss[CHOOSE i \in DOMAIN ss : ss[i].snapshot_id = snapshot_id]

SnapPut(ss, m) ==
    IF m.snapshot_id \in SnapIds(ss)
    THEN [i \in DOMAIN ss |->
             IF ss[i].snapshot_id = m.snapshot_id THEN m ELSE ss[i]]
    ELSE Append(ss, m)

IdleSnapshot ==
    [call |-> "none", snapshot_id |-> NoSnapshot, result |-> "none",
     error_code |-> "none"]

SnapshotOutcome(call, snapshot_id, result, error_code) ==
    [call |-> call, snapshot_id |-> snapshot_id, result |-> result,
     error_code |-> error_code]

InitSnapshot ==
    /\ snapshots = <<>>
    /\ archives = EmptyMap
    /\ snres = IdleSnapshot

\* tar.add(source, arcname=source.name, filter=tar_filter): a file is a
\* member, under the name source.name/path, unless a pattern occurs in
\* that name or in the name of the root.
MemberName(path) == SourceName \o <<"/">> \o path

Excluded(name, exclude_patterns) ==
    \E i \in DOMAIN exclude_patterns : IsSubstring(exclude_patterns[i], name)

TarMembers(tree, exclude_patterns) ==
    IF Excluded(SourceName, exclude_patterns)
    THEN EmptyMap
    ELSE LET kept == {p \in DOMAIN tree :
                          ~Excluded(MemberName(p), exclude_patterns)}
         IN  [name \in {MemberName(p) : p \in kept} |->
                 tree[CHOOSE p \in kept : MemberName(p) = name]]

\* create_tar_snapshot.  fail: tar or the checksum pass raises after the
\* archive file was opened for writing ("write"), or nothing does ("none").
SnapshotFailPoints == {"none", "write"}

\* What tarfile.open left at snapshot_file when the exception was raised.
PartialFile(format) ==
    [format |-> format, members |-> EmptyMap, damaged |-> TRUE]

\* UnlinkPartial with the handler leaving the file where it is.
KeepPartial(files, snapshot_file) == files

\* Lines 223-225: the handler unlinks snapshot_file if it exists.
UnlinkPartial(files, snapshot_file) == Drop(files, snapshot_file)

CreateTarSnapshot(name, format, exclude_patterns, fail) ==
    LET snapshot_id == SnapshotId(SourcePath, now, Len(snapshots))
        snapshot_file == SnapshotFile(name, snapshot_id, format)
        file == [format |-> format,
                 members |-> TarMembers(source.files, exclude_patterns),
                 damaged |-> FALSE]
        metadata ==
            [snapshot_id |-> snapshot_id, name |-> name,
             source_path |-> SourcePath, snapshot_path |-> snapshot_file,
             format |-> format, created_at |-> now,
             checksum |-> CalculateChecksum(file),
             file_count |-> Cardinality(DOMAIN source.files)]
    IN  /\ IF ~source.exists
           THEN /\ snres' = SnapshotOutcome("create", NoSnapshot, "raised",
                                            "SOURCE_NOT_FOUND")
                /\ UNCHANGED <<snapshots, archives>>
           ELSE IF fail = "write"
           THEN /\ archives' = UnlinkPartial(
                                   Put(archives, snapshot_file,
                                       PartialFile(format)),
                                   snapshot_file)
                /\ snres' = SnapshotOutcome("create", snapshot_id, "raised",
                                            "SNAPSHOT_FAILED")
                /\ UNCHANGED snapshots
           ELSE /\ archives' = Put(archives, snapshot_file, file)
                /\ snapshots' = SnapPut(snapshots, metadata)
                /\ snres' = SnapshotOutcome("create", snapshot_id, "returned",
                                            "none")
        /\ UNCHANGED <<source, dest, backupVars, rollbackVars,
                   detectVars, callVars>>

\* create_rsync_snapshot.  fail: rsync exits with an error ("error"), runs
\* for more than an hour ("timeout"), is not installed ("missing"), or runs
\* to its end ("none").  Line 266 creates the snapshot directory before
\* rsync is started; rsync -a --delete source/ snapshot/ makes the directory
\* equal to the source tree.  No handler of lines 312-328 touches the
\* directory.
RsyncFailPoints == {"none", "error", "timeout", "missing"}

RsyncErrorCode(fail) ==
    CASE fail = "error" -> "RSYNC_FAILED"
      [] fail = "timeout" -> "RSYNC_TIMEOUT"
      [] fail = "missing" -> "RSYNC_NOT_FOUND"

EmptyDir == [format |-> "rsync", members |-> EmptyMap, damaged |-> FALSE]

Mkdir(files, snapshot_path) ==
    IF snapshot_path \in DOMAIN files THEN files
    ELSE Put(files, snapshot_path, EmptyDir)

CreateRsyncSnapshot(name, fail) ==
    LET snapshot_id == SnapshotId(SourcePath, now, Len(snapshots))
        snapshot_path == SnapshotFile(name, snapshot_id, "rsync")
        metadata ==
            [snapshot_id |-> snapshot_id, name |-> name,
             source_path |-> SourcePath, snapshot_path |-> snapshot_path,
             format |-> "rsync", created_at |-> now,
             checksum |-> NoChecksum,
             file_count |-> Cardinality(DOMAIN source.files)]
    IN  /\ IF ~source.exists
           THEN /\ snres' = SnapshotOutcome("create", NoSnapshot, "raised",
                                            "SOURCE_NOT_FOUND")
                /\ UNCHANGED <<snapshots, archives>>
           ELSE IF fail # "none"
           THEN /\ archives' = Mkdir(archives, snapshot_path)
                /\ snres' = SnapshotOutcome("create", snapshot_id, "raised",
                                            RsyncErrorCode(fail))
                /\ UNCHANGED snapshots
           ELSE /\ archives' = Put(archives, snapshot_path,
                                   [EmptyDir EXCEPT !.members = source.files])
                /\ snapshots' = SnapPut(snapshots, metadata)
                /\ snres' = SnapshotOutcome("create", snapshot_id, "returned",
                                            "none")
        /\ UNCHANGED <<source, dest, backupVars, rollbackVars,
                   detectVars, callVars>>

\* A byte of an archive file changes on disk.
CorruptArchive(path) ==
    /\ path \in DOMAIN archives
    /\ ~archives[path].damaged
    /\ archives' = [archives EXCEPT ![path].damaged = TRUE]
    /\ UNCHANGED <<snapshots, snres, source, dest, backupVars, rollbackVars,
                   detectVars, callVars>>

\* An archive file disappears from disk.
RemoveArchive(path) ==
    /\ path \in DOMAIN archives
    /\ archives' = Drop(archives, path)
    /\ UNCHANGED <<snapshots, snres, source, dest, backupVars, rollbackVars,
                   detectVars, callVars>>

(***************************************************************************)
(* restore_snapshot.  Lines 345-371 raise before line 374 creates the      *)
(* destination.  tar reads a damaged archive either as it was written or   *)
(* not at all: readable tells which.                                       *)
(***************************************************************************)
\* VerifiesChecksum with the verification never run.
VerifiesNothing(verify, metadata) == FALSE

\* Line 363: the checksum is compared when verify is set and the record has
\* one.
VerifiesChecksum(verify, metadata) ==
    verify /\ metadata.checksum # NoChecksum /\ metadata.format # "rsync"

ExtractAll(file, tree) == Overlay(tree, file.members)

RestoreSnapshot(snapshot_id, verify, readable) ==
    /\ IF snapshot_id \notin SnapIds(snapshots)
       THEN /\ snres' = SnapshotOutcome("restore", snapshot_id, "raised",
                                        "SNAPSHOT_NOT_FOUND")
            /\ UNCHANGED dest
       ELSE LET metadata == Snapshot(snapshots, snapshot_id)
                snapshot_path == metadata.snapshot_path
            IN  IF snapshot_path \notin DOMAIN archives
                THEN /\ snres' = SnapshotOutcome("restore", snapshot_id,
                                                 "raised",
                                                 "SNAPSHOT_FILE_NOT_FOUND")
                     /\ UNCHANGED dest
                ELSE IF /\ VerifiesChecksum(verify, metadata)
                        /\ CalculateChecksum(archives[snapshot_path])
                               # metadata.checksum
                THEN /\ snres' = SnapshotOutcome("restore", snapshot_id,
                                                 "raised", "CHECKSUM_MISMATCH")
                     /\ UNCHANGED dest
                ELSE IF archives[snapshot_path].damaged /\ ~readable
                THEN /\ dest' = [dest EXCEPT !.exists = TRUE]
                     /\ snres' = SnapshotOutcome("restore", snapshot_id,
                                                 "raised", "RESTORE_FAILED")
                ELSE /\ dest' = [exists |-> TRUE,
                                 files |-> ExtractAll(archives[snapshot_path],
                                                      dest.files)]
                     /\ snres' = SnapshotOutcome("restore", snapshot_id,
                                                 "True", "none")
    /\ UNCHANGED <<snapshots, archives, source, backupVars, rollbackVars,
                   detectVars, callVars>>

(***************************************************************************)
(* verify_backup, and what can happen to the backup storage behind the     *)
(* engine's back: a stored file or a whole storage directory disappears,   *)
(* a stored file's bytes change.                                           *)
(***************************************************************************)
LoseStoredFile(dir, path) ==
    /\ Stored(storage, BackupPath(dir, path))
    /\ storage' = [storage EXCEPT ![dir].files = Drop(@, path)]
    /\ UNCHANGED <<source, dest, manifests, bkres, captured, rollbackVars,
                   snapshotVars, detectVars, callVars>>

LoseStorageDir(dir) ==
    /\ dir \in DOMAIN storage
    /\ storage' = Drop(storage, dir)
    /\ UNCHANGED <<source, dest, manifests, bkres, captured, rollbackVars,
                   snapshotVars, detectVars, callVars>>

AlterStoredFile(dir, path, c) ==
    /\ Stored(storage, BackupPath(dir, path))
    /\ storage[dir].files[path] # c
    /\ storage' = [storage EXCEPT ![dir].files[path] = c]
    /\ UNCHANGED <<source, dest, manifests, bkres, captured, rollbackVars,
                   snapshotVars, detectVars, callVars>>

\* VerifyResult with the loop over the files left out.
VerifyDirOnly(ms, st, backup_id) ==
    /\ backup_id \in Ids(ms)
    /\ Manifest(ms, backup_id).backup_dir \in DOMAIN st

\* Lines 538-557.
VerifyResult(ms, st, backup_id) ==
    /\ backup_id \in Ids(ms)
    /\ LET manifest == Manifest(ms, backup_id)
       IN  /\ manifest.backup_dir \in DOMAIN st
           /\ \A p \in DOMAIN manifest.files :
                  (/\ manifest.files[p].backed_up
                   /\ manifest.files[p].backup_path # NoPath)
                      => Stored(st, manifest.files[p].backup_path)

VerifyBackup(backup_id) ==
    /\ bkres' = BackupOutcome("verify", backup_id,
                              IF VerifyResult(manifests, storage, backup_id)
                              THEN "True" ELSE "False",
                              "none")
    /\ UNCHANGED <<source, dest, manifests, storage, captured, rollbackVars,
                   snapshotVars, detectVars, callVars>>

(***************************************************************************)
(* cleanup_old_snapshots.  list_snapshots filters the records by source    *)
(* path; both sorts are stable, so the records end up oldest first and, at *)
(* equal created_at, in the order of the index.  age_days is counted in    *)
(* readings of the clock.  delete_snapshot unlinks the archive and drops   *)
(* the record; the unlink succeeds here.                                   *)
(***************************************************************************)
OtherPath == "/t"

SourcePaths == {SourcePath, OtherPath}

ListSnapshots(ss, source_path) ==
    {i \in DOMAIN ss : ss[i].source_path = source_path}

Older(ss, i, j) ==
    \/ ss[i].created_at < ss[j].created_at
    \/ ss[i].created_at = ss[j].created_at /\ i < j

RECURSIVE OldestFirst(_, _)
OldestFirst(ss, indices) ==
    IF indices = {} THEN <<>>
    ELSE LET first == CHOOSE i \in indices :
                          \A j \in indices \ {i} : Older(ss, i, j)
         IN  <<first>> \o OldestFirst(ss, indices \ {first})

\* Line 536: snapshots[:-keep_count]; -0 is 0, and [:0] is empty.
AllButNewest(sorted, keep_count) ==
    IF keep_count = 0 THEN <<>>
    ELSE SubSeq(sorted, 1, Len(sorted) - keep_count)

CleanupDeletes(ss, t, source_path, keep_count, min_age_days) ==
    LET sorted == OldestFirst(ss, ListSnapshots(ss, source_path))
        old == AllButNewest(sorted, keep_count)
    IN  IF Len(sorted) <= keep_count THEN {}
        ELSE {old[k] : k \in {k \in DOMAIN old :
                 t - ss[old[k]].created_at >= min_age_days}}

RemoveRecords(ss, indices) ==
    LET kept(i) == i \notin indices
        RECURSIVE Keep(_)
        Keep(i) == IF i > Len(ss) THEN <<>>
                   ELSE (IF kept(i) THEN <<ss[i]>> ELSE <<>>) \o Keep(i + 1)
    IN  Keep(1)

CleanupOldSnapshots(source_path, keep_count, min_age_days) ==
    LET deleted == CleanupDeletes(snapshots, now, source_path, keep_count,
                                  min_age_days)
        paths == {snapshots[i].snapshot_path : i \in deleted}
    IN  /\ snapshots' = RemoveRecords(snapshots, deleted)
        /\ archives' = [f \in DOMAIN archives \ paths |-> archives[f]]
        /\ snres' = SnapshotOutcome("cleanup", NoSnapshot,
                                    Cardinality(deleted), "none")
        /\ UNCHANGED <<source, dest, backupVars, rollbackVars, detectVars, callVars>>

(***************************************************************************)
(* create_tar_snapshot run by several callers on one FilesystemSnapshot.   *)
(* The function takes no lock, so the callers' statements interleave:      *)
(* line 145 computes the identifier from the clock and the size of the     *)
(* index, lines 173-184 write the archive file (tarfile.open in mode "w"   *)
(* truncates a file that is there), line 213 stores the record.            *)
(***************************************************************************)
Callers == {1, 2}

IdleCaller ==
    [pc |-> "idle", name |-> NoStr, format |-> NoStr,
     snapshot_id |-> NoSnapshot, checksum |-> NoChecksum, file_count |-> 0,
     overlapped |-> FALSE]

InitCallers == callers = [t \in Callers |-> IdleCaller]

Running(t) == callers[t].pc \in {"generated", "written"}

\* Lines 137-156.
GenerateSnapshotId(t, name, format) ==
    /\ callers[t].pc = "idle"
    /\ source.exists
    /\ callers' = [u \in Callers |->
           IF u = t
           THEN [IdleCaller EXCEPT
                    !.pc = "generated", !.name = name, !.format = format,
                    !.snapshot_id =
                        SnapshotId(SourcePath, now, Len(snapshots)),
                    !.overlapped = \E v \in Callers \ {t} : Running(v)]
           ELSE [callers[u] EXCEPT
                    !.overlapped = @ \/ Running(u)]]
    /\ UNCHANGED <<source, dest, backupVars, snapshotVars, rollbackVars,
                   detectVars, racers, systemVars>>

\* Lines 169-197.
WriteArchive(t) ==
    LET c == callers[t]
        file == [format |-> c.format,
                 members |-> TarMembers(source.files, <<>>),
                 damaged |-> FALSE]
    IN  /\ c.pc = "generated"
        /\ source.exists
        /\ archives' = Put(archives,
                           SnapshotFile(c.name, c.snapshot_id, c.format), file)
        /\ callers' = [callers EXCEPT
               ![t].pc = "written",
               ![t].checksum = CalculateChecksum(file),
               ![t].file_count = Cardinality(DOMAIN source.files)]
        /\ UNCHANGED <<source, dest, backupVars, snapshots, snres,
                       rollbackVars, detectVars, racers, systemVars>>

\* Lines 199-218.
StoreRecord(t) ==
    LET c == callers[t]
        metadata ==
            [snapshot_id |-> c.snapshot_id, name |-> c.name,
             source_path |-> SourcePath,
             snapshot_path |-> SnapshotFile(c.name, c.snapshot_id, c.format),
             format |-> c.format, created_at |-> now,
             checksum |-> c.checksum, file_count |-> c.file_count]
    IN  /\ c.pc = "written"
        /\ snapshots' = SnapPut(snapshots, metadata)
        /\ snres' = SnapshotOutcome("create", c.snapshot_id, "returned",
                                    "none")
        /\ callers' = [callers EXCEPT ![t].pc = "returned"]
        /\ UNCHANGED <<source, dest, backupVars, archives, rollbackVars,
                       detectVars, racers, systemVars>>

(***************************************************************************)
(* create_backup and delete_backup run by two callers on one               *)
(* IncrementalBackup.  Neither function takes a lock.  create_backup reads *)
(* the parent's manifest at lines 227-232 and stores the new manifest at   *)
(* line 276, after the copies; delete_backup computes the children at line *)
(* 439 and removes the directory and the manifest at lines 453-458.        *)
(***************************************************************************)
IdleRacers ==
    [create |-> [pc |-> "idle", manifest |-> NoBackup],
     delete |-> [pc |-> "idle", backup_id |-> NoBackup, result |-> "none"]]

InitRacers == racers = IdleRacers

\* Lines 196-270: everything up to the manifest object.
BeginCreateBackup(name, parent_backup_id) ==
    LET backup_id == BackupId(now, Len(manifests))
        backup_subdir == BackupSubdir(name, backup_id)
        scanned == ScanDirectory(source.files)
        changes == Changes(scanned, parent_backup_id)
        files_to_backup == changes.new_files \cup changes.modified_files
        current_index == MarkBackedUp(scanned, files_to_backup, backup_subdir)
        before == IF backup_subdir \in DOMAIN storage
                  THEN storage[backup_subdir] ELSE NoStorage
        manifest ==
            [backup_id |-> backup_id, name |-> name,
             backup_dir |-> backup_subdir,
             parent_backup_id |-> parent_backup_id, files |-> current_index,
             new_files |-> Cardinality(changes.new_files),
             modified_files |-> Cardinality(changes.modified_files),
             deleted_files |-> Cardinality(changes.deleted_files),
             total_size |-> SumSizes(current_index, files_to_backup)]
    IN  /\ racers.create.pc = "idle"
        /\ source.exists
        /\ storage' =
               Put(storage, backup_subdir,
                   [files |-> Overlay(before.files,
                                      [p \in files_to_backup |->
                                           source.files[p]]),
                    manifest |-> before.manifest])
        /\ racers' = [racers EXCEPT
               !.create = [pc |-> "copied", manifest |-> manifest]]
        /\ UNCHANGED <<source, dest, manifests, bkres, captured, callers,
                       rollbackVars, snapshotVars, detectVars, systemVars>>

\* Lines 272-290: the manifest file is written, the manifest is stored.
StoreManifest ==
    LET manifest == racers.create.manifest
    IN  /\ racers.create.pc = "copied"
        /\ storage' =
               IF manifest.backup_dir \in DOMAIN storage
               THEN [storage EXCEPT ![manifest.backup_dir].manifest = TRUE]
               ELSE storage
        /\ manifests' = DictPut(manifests, manifest)
        /\ bkres' = BackupOutcome("create", manifest.backup_id, "returned",
                                  "none")
        /\ racers' = [racers EXCEPT !.create.pc = "returned"]
        /\ UNCHANGED <<source, dest, captured, callers, rollbackVars,
                       snapshotVars, detectVars, systemVars>>

\* Lines 432-445 with delete_children=False: the children are looked up.
BeginDeleteBackup(backup_id) ==
    /\ racers.delete.pc = "idle"
    /\ racers' = [racers EXCEPT
           !.delete =
               IF \/ backup_id \notin Ids(manifests)
                  \/ ChildIds(manifests, backup_id) # <<>>
               THEN [pc |-> "returned", backup_id |-> backup_id,
                     result |-> "False"]
               ELSE [pc |-> "checked", backup_id |-> backup_id,
                     result |-> "none"]]
    /\ UNCHANGED <<source, dest, backupVars, callers, rollbackVars,
                   snapshotVars, detectVars, systemVars>>

\* Lines 447-464: the directory and the manifest are removed.
FinishDeleteBackup ==
    LET backup_id == racers.delete.backup_id
    IN  /\ racers.delete.pc = "checked"
        /\ storage' = Drop(storage, Manifest(manifests, backup_id).backup_dir)
        /\ manifests' = DictDel(manifests, backup_id)
        /\ bkres' = BackupOutcome("delete", backup_id, "True", "none")
        /\ racers' = [racers EXCEPT
               !.delete.pc = "returned", !.delete.result = "True"]
        /\ UNCHANGED <<source, dest, captured, callers, rollbackVars,
                       snapshotVars, detectVars, systemVars>>

(***************************************************************************)
(* SnapshotSystem.  A snapshot id is "snapshot_<seconds of the clock>"; a  *)
(* reading of the clock is one second here.  create_snapshot stores the    *)
(* record (CREATING) under its id before anything else, then creates the   *)
(* directory and writes metadata.json; fail tells whether one of the two   *)
(* raises, which leaves the record in the index as FAILED.  Nothing ever   *)
(* assigns current_snapshot after the constructor.                         *)
(***************************************************************************)
NoSystemSnapshot == <<"none", -1>>

SystemSnapshotId(t) == <<"snapshot", t>>

\* A name is the sequence of its parts: f"pre_rollback_{name}" puts one part
\* before the name.
SystemNames == {<<"n">>}

PreRollbackOf(name) == <<"pre_rollback">> \o name

LastKnownGoodName == <<"last_known_good">>

SystemSnapshot(id, name, type, status, timestamp) ==
    [id |-> id, name |-> name, type |-> type, status |-> status,
     timestamp |-> timestamp]

InitSystem ==
    /\ system = [snapshots |-> EmptyMap,
                 last_known_good |-> NoSystemSnapshot,
                 current_snapshot |-> NoSystemSnapshot]
    /\ sysres = [call |-> "none", arg |-> NoSystemSnapshot, result |-> "none"]

SystemOutcome(call, arg, result) ==
    [call |-> call, arg |-> arg, result |-> result]

\* Lines 92-135: the index after create_snapshot.
CreatedSnapshots(ss, t, name, type, fail) ==
    Put(ss, SystemSnapshotId(t),
        SystemSnapshot(SystemSnapshotId(t), name, type,
                       IF fail THEN "failed" ELSE "complete", t))

CreateSnapshot(name, type, fail) ==
    /\ system' = [system EXCEPT
           !.snapshots = CreatedSnapshots(@, now, name, type, fail)]
    /\ sysres' = SystemOutcome("create", SystemSnapshotId(now),
                               IF fail THEN "None" ELSE "returned")
    /\ UNCHANGED <<rollbackVars, source, dest, backupVars, snapshotVars,
                   detectVars, callers, racers>>

\* DeleteRefused with no snapshot protected.
DeleteRefusedNever(sys, snapshot_id) == FALSE

\* Lines 150-157.
DeleteRefused(sys, snapshot_id) ==
    \/ snapshot_id = sys.last_known_good
    \/ snapshot_id = sys.current_snapshot

\* Lines 146-177: the index after delete_snapshot.
DeletedSnapshots(sys, snapshot_id) ==
    IF snapshot_id \notin DOMAIN sys.snapshots \/ DeleteRefused(sys, snapshot_id)
    THEN sys.snapshots
    ELSE Drop(sys.snapshots, snapshot_id)

SystemDeleteSnapshot(snapshot_id) ==
    /\ system' = [system EXCEPT
           !.snapshots = DeletedSnapshots(system, snapshot_id)]
    /\ sysres' = SystemOutcome("delete", snapshot_id,
                               IF /\ snapshot_id \in DOMAIN system.snapshots
                                  /\ ~DeleteRefused(system, snapshot_id)
                               THEN "True" ELSE "False")
    /\ UNCHANGED <<rollbackVars, source, dest, backupVars, snapshotVars,
                   detectVars, callers, racers>>

\* Lines 188-222; fail: the pre-rollback create_snapshot returns None.
RollbackToSnapshot(snapshot_id, fail) ==
    /\ IF snapshot_id \notin DOMAIN system.snapshots
       THEN /\ sysres' = SystemOutcome("rollback", snapshot_id, "False")
            /\ UNCHANGED system
       ELSE LET snapshot == system.snapshots[snapshot_id]
            IN  IF snapshot.status # "complete"
                THEN /\ sysres' = SystemOutcome("rollback", snapshot_id,
                                                "False")
                     /\ UNCHANGED system
                ELSE /\ system' = [system EXCEPT
                            !.snapshots =
                                CreatedSnapshots(@, now,
                                                 PreRollbackOf(snapshot.name),
                                                 "auto_update", fail)]
                     /\ sysres' = SystemOutcome("rollback", snapshot_id,
                                                IF fail THEN "False"
                                                ELSE "True")
    /\ UNCHANGED <<rollbackVars, source, dest, backupVars, snapshotVars,
                   detectVars, callers, racers>>

\* Lines 231-244; snapshot_id = NoSystemSnapshot stands for None.
MarkAsLastKnownGood(snapshot_id, fail) ==
    LET created == snapshot_id = NoSystemSnapshot
        ss == IF created
              THEN CreatedSnapshots(system.snapshots, now, LastKnownGoodName,
                                    "auto_boot", fail)
              ELSE system.snapshots
        id == IF created /\ ~fail THEN SystemSnapshotId(now) ELSE snapshot_id
    IN  /\ system' = [system EXCEPT
               !.snapshots = ss,
               !.last_known_good =
                   IF id # NoSystemSnapshot /\ id \in DOMAIN ss THEN id ELSE @]
        /\ sysres' = SystemOutcome("mark", snapshot_id, "None")
        /\ UNCHANGED <<rollbackVars, source, dest, backupVars, snapshotVars,
                       detectVars, callers, racers>>

\* Lines 270-288: the snapshots from the newest down, the protected ones
\* skipped, the first keep_count of the others kept.
ToDelete(sys, keep_count) ==
    LET others == {id \in DOMAIN sys.snapshots :
                       id \notin {sys.last_known_good, sys.current_snapshot}}
        newer(id) == {o \in others :
                          sys.snapshots[o].timestamp > sys.snapshots[id].timestamp}
    IN  {id \in others : Cardinality(newer(id)) >= keep_count}

SystemCleanupOldSnapshots(keep_count) ==
    /\ system' = [system EXCEPT
           !.snapshots =
               [id \in {i \in DOMAIN @ :
                            \/ i \notin ToDelete(system, keep_count)
                            \/ DeleteRefused(system, i)} |-> @[id]]]
    /\ sysres' = SystemOutcome("cleanup", NoSystemSnapshot, "None")
    /\ UNCHANGED <<rollbackVars, source, dest, backupVars, snapshotVars,
                   detectVars, callers, racers>>

InitStore ==
    /\ InitSystem
    /\ InitTrees
    /\ InitBackup
    /\ InitSnapshot
    /\ InitDetect
    /\ InitCallers
    /\ InitRacers

(***************************************************************************)
(* Specifications of the RollbackManager.  The variables are shared; each  *)
(* specification lets one part of the inputs vary and pins the rest to the *)
(* defaults of the source (force=False, skip_safety_checks=False,          *)
(* require_safety_checks=True, auto_create_checkpoint=True, the built-in   *)
(* checkers).                                                              *)
(***************************************************************************)
PointArgs == DOMAIN rollback_points \cup {GhostPoint}

OperationArgs == DOMAIN operations \cup {GhostOperation}

AllIdle == \A t \in Threads : thr[t].pc = "idle"

SeqCaller == "t1"

FilesystemInputs == {inp \in PointInputs : inp.scope = "filesystem"}

PassingEnvironments == {env \in Environments : env.disk = "ok"}

InitConfigured == InitRollback /\ InitStore /\ configExists = ConfigPaths

InitDefaults ==
    /\ InitRollback
    /\ InitStore
    /\ require_safety_checks
    /\ auto_create_checkpoint

\* The steps of a running initiate_rollback that take no input.
InitiateStep(t) ==
    \/ SetValidating(t)
    \/ CreateCheckpoint(t)
    \/ BeginExecute(t)
    \/ CompleteRollback(t)

(***************************************************************************)
(* SpecRollbackSeq: one caller, one call at a time; the safety gate with   *)
(* every configuration of the manager, every registered checker, every     *)
(* environment and every force/skip argument.                              *)
(***************************************************************************)
NextRollbackSeq ==
    \/ AllIdle /\ Tick
    \/ \E k \in RegisterKinds, c \in CustomCheckers :
           AllIdle /\ RegisterSafetyChecker(k, c)
    \/ \E n \in UserNames, inp \in FilesystemInputs :
           AllIdle /\ CreateRollbackPoint(n, inp)
    \/ \E p \in DOMAIN rollback_points, force \in BOOLEAN, skip \in BOOLEAN :
           InitiateStart(SeqCaller, p, force, skip) /\ Len(opObj') <= MaxOps
    \/ \E env \in Environments : SafetyGate(SeqCaller, env)
    \/ InitiateStep(SeqCaller)
    \/ \E o \in OperationArgs : CancelCheck(SeqCaller, o)

SpecRollbackSeq == InitConfigured /\ [][NextRollbackSeq]_vars

(***************************************************************************)
(* SpecRollbackPoints: one caller, one call at a time; points of every     *)
(* scope created and rolled back to, while the clock advances and          *)
(* configuration copies disappear.                                         *)
(***************************************************************************)
NextRollbackPoints ==
    \/ AllIdle /\ Tick
    \/ \E c \in ConfigPaths : AllIdle /\ RemoveConfig(c)
    \/ \E n \in UserNames, inp \in PointInputs :
           AllIdle /\ CreateRollbackPoint(n, inp)
    \/ \E p \in PointArgs, force \in BOOLEAN :
           InitiateStart(SeqCaller, p, force, FALSE) /\ Len(opObj') <= MaxOps
    \/ \E env \in PassingEnvironments : SafetyGate(SeqCaller, env)
    \/ InitiateStep(SeqCaller)

SpecRollbackPoints == InitDefaults /\ [][NextRollbackPoints]_vars

(***************************************************************************)
(* SpecRollbackVerify: one caller verifies points of every scope, again    *)
(* and again, while points are created and deleted, the clock advances and *)
(* configuration copies disappear.                                         *)
(***************************************************************************)
NextRollbackVerify ==
    \/ Tick
    \/ \E c \in ConfigPaths : RemoveConfig(c)
    \/ \E n \in UserNames, inp \in PointInputs : CreateRollbackPoint(n, inp)
    \/ \E p \in DOMAIN rollback_points : DeleteRollbackPoint(p)
    \/ \E p \in PointArgs : VerifyRollbackPoint(SeqCaller, p)

SpecRollbackVerify == InitDefaults /\ [][NextRollbackVerify]_vars

(***************************************************************************)
(* SpecRollbackCancel: one caller runs initiate_rollback while another     *)
(* calls cancel_rollback.                                                  *)
(***************************************************************************)
Canceller == "t2"

ConcEnvironments == {env \in Environments : env.ps = "ok"}

NextRollbackCancel ==
    \/ Tick
    \/ \E n \in UserNames, inp \in FilesystemInputs : CreateRollbackPoint(n, inp)
    \/ \E p \in DOMAIN rollback_points :
           InitiateStart(SeqCaller, p, FALSE, FALSE) /\ Len(opObj') <= MaxOps
    \/ \E env \in ConcEnvironments : SafetyGate(SeqCaller, env)
    \/ InitiateStep(SeqCaller)
    \/ \E o \in OperationArgs : CancelCheck(Canceller, o)
    \/ CancelSet(Canceller)

SpecRollbackCancel == InitDefaults /\ [][NextRollbackCancel]_vars

(***************************************************************************)
(* SpecRollback: two callers whose initiate_rollback and cancel_rollback   *)
(* calls overlap.                                                          *)
(***************************************************************************)
NextRollback ==
    \/ Tick
    \/ \E n \in UserNames, inp \in FilesystemInputs : CreateRollbackPoint(n, inp)
    \/ \E t \in Threads, p \in DOMAIN rollback_points :
           InitiateStart(t, p, FALSE, FALSE) /\ Len(opObj') <= MaxConcurrentOps
    \/ \E t \in Threads, env \in ConcEnvironments : SafetyGate(t, env)
    \/ \E t \in Threads : InitiateStep(t)
    \/ \E p \in DOMAIN rollback_points : AllIdle /\ DeleteRollbackPoint(p)
    \/ \E t \in Threads, o \in DOMAIN operations : CancelCheck(t, o)
    \/ \E t \in Threads : CancelSet(t)

SpecRollback == InitDefaults /\ [][NextRollback]_vars

(***************************************************************************)
(* SpecRollbackFail: one caller runs initiate_rollback, any statement of   *)
(* whose try block may raise, while a second caller cancels.               *)
(***************************************************************************)
NextRollbackFail ==
    \/ \E n \in UserNames, inp \in FilesystemInputs : CreateRollbackPoint(n, inp)
    \/ \E p \in DOMAIN rollback_points, force \in BOOLEAN :
           InitiateStart(SeqCaller, p, force, FALSE) /\ Len(opObj') <= MaxOps
    \/ \E env \in Environments : SafetyGate(SeqCaller, env)
    \/ InitiateStep(SeqCaller)
    \/ RaiseInFlight(SeqCaller)
    \/ \E o \in OperationArgs : CancelCheck(Canceller, o)
    \/ CancelSet(Canceller)

SpecRollbackFail == InitDefaults /\ [][NextRollbackFail]_vars

\* The engines next to a manager that is constructed with its defaults and
\* left alone.
InitEngines ==
    /\ InitRollback
    /\ InitStore
    /\ configExists = ConfigPaths
    /\ require_safety_checks
    /\ auto_create_checkpoint

(***************************************************************************)
(* Specifications of the IncrementalBackup engine.                         *)
(*                                                                         *)
(* SpecBackup: the source tree changes between backups, full and           *)
(* incremental backups without exclusions are taken and restored.          *)
(***************************************************************************)
MaxBackups == 2

ParentArgs == Ids(manifests) \cup {NoBackup}

BackupArgs == Ids(manifests) \cup {GhostBackup}

NextBackup ==
    \/ \E p \in Paths, c \in Contents : WriteFile(p, c)
    \/ \E p \in Paths : RemoveFile(p)
    \/ RemoveSource
    \/ ClearDest
    \/ \E n \in BackupNames, parent \in ParentArgs :
           CreateBackup(n, parent, <<>>, "none") /\ Len(manifests') <= MaxBackups
    \/ \E b \in BackupArgs, chain \in BOOLEAN : RestoreBackup(b, chain)

SpecBackup == InitEngines /\ [][NextBackup]_vars

(***************************************************************************)
(* SpecBackupDelete: a fixed tree is backed up into chains of backups,     *)
(* which are deleted with and without their children while the removal of  *)
(* a storage directory may fail.                                           *)
(***************************************************************************)
(***************************************************************************)
(* SpecBackupCreate: full and incremental backups of a tree whose files    *)
(* are written and removed between them.                                   *)
(***************************************************************************)
NextBackupCreate ==
    \/ \E p \in Paths, c \in Contents : WriteFile(p, c)
    \/ \E p \in Paths : RemoveFile(p)
    \/ \E n \in BackupNames, parent \in ParentArgs :
           CreateBackup(n, parent, <<>>, "none") /\ Len(manifests') <= MaxBackups

SpecBackupCreate == InitEngines /\ [][NextBackupCreate]_vars

(***************************************************************************)
(* SpecBackupRestore: full and incremental backups of a tree whose files   *)
(* are written (never removed) between them, restored with and without     *)
(* their chain into an empty destination, before and after the source tree *)
(* is deleted for good.                                                    *)
(***************************************************************************)
NextBackupRestore ==
    \/ \E p \in Paths, c \in Contents : source.exists /\ WriteFile(p, c)
    \/ RemoveSource
    \/ ClearDest
    \/ \E n \in BackupNames, parent \in ParentArgs :
           CreateBackup(n, parent, <<>>, "none") /\ Len(manifests') <= MaxBackups
    \/ \E b \in BackupArgs, chain \in BOOLEAN :
           dest.files = EmptyMap /\ RestoreBackup(b, chain)

SpecBackupRestore == InitEngines /\ [][NextBackupRestore]_vars

(***************************************************************************)
(* SpecBackupFail: backups during which the file system raises at the      *)
(* scan, at a copy or at the write of the manifest file, or not at all.    *)
(***************************************************************************)
NextBackupFail ==
    \/ \E p \in Paths, c \in Contents : WriteFile(p, c)
    \/ \E p \in Paths : RemoveFile(p)
    \/ \E n \in BackupNames, parent \in ParentArgs, fail \in FailPoints :
           CreateBackup(n, parent, <<>>, fail) /\ Len(manifests') <= MaxBackups

SpecBackupFail == InitEngines /\ [][NextBackupFail]_vars

(***************************************************************************)
(* SpecBackupVerify: backups are verified while stored files and storage   *)
(* directories disappear or change; the source is written before the first *)
(* backup is taken.                                                        *)
(***************************************************************************)
NextBackupVerify ==
    \/ \E p \in Paths, c \in Contents : manifests = <<>> /\ WriteFile(p, c)
    \/ \E n \in BackupNames, parent \in ParentArgs :
           CreateBackup(n, parent, <<>>, "none") /\ Len(manifests') <= MaxBackups
    \/ \E dir \in DOMAIN storage, p \in Paths : LoseStoredFile(dir, p)
    \/ \E dir \in DOMAIN storage : LoseStorageDir(dir)
    \/ \E dir \in DOMAIN storage, p \in Paths, c \in Contents :
           AlterStoredFile(dir, p, c)
    \/ \E b \in BackupArgs : VerifyBackup(b)

SpecBackupVerify == InitEngines /\ [][NextBackupVerify]_vars

(***************************************************************************)
(* SpecBackupLoss: backups are restored into an empty destination after    *)
(* stored files disappeared from the backup storage.                       *)
(***************************************************************************)
NextBackupLoss ==
    \/ \E p \in Paths, c \in Contents : WriteFile(p, c)
    \/ ClearDest
    \/ \E n \in BackupNames, parent \in ParentArgs :
           CreateBackup(n, parent, <<>>, "none") /\ Len(manifests') <= MaxBackups
    \/ \E dir \in DOMAIN storage, p \in Paths : LoseStoredFile(dir, p)
    \/ \E b \in BackupArgs :
           dest.files = EmptyMap /\ RestoreBackup(b, TRUE)

SpecBackupLoss == InitEngines /\ [][NextBackupLoss]_vars

(***************************************************************************)
(* SpecBackupRace: a create_backup and a delete_backup without cascade run *)
(* at the same time, after backups were taken one at a time.               *)
(***************************************************************************)
NextBackupRace ==
    \/ \E p \in Paths, c \in Contents : manifests = <<>> /\ WriteFile(p, c)
    \/ \E n \in BackupNames :
           /\ racers = IdleRacers
           /\ CreateBackup(n, NoBackup, <<>>, "none")
           /\ Len(manifests') <= MaxBackups
    \/ \E n \in BackupNames, parent \in ParentArgs :
           BeginCreateBackup(n, parent)
    \/ StoreManifest
    \/ \E b \in BackupArgs : BeginDeleteBackup(b)
    \/ FinishDeleteBackup

SpecBackupRace == InitEngines /\ [][NextBackupRace]_vars

(***************************************************************************)
(* SpecBackupExclude: full and incremental backups, with and without       *)
(* exclusions, of a tree whose files are written between them.             *)
(***************************************************************************)
NextBackupExclude ==
    \/ \E p \in Paths, c \in Contents : WriteFile(p, c)
    \/ \E n \in BackupNames, parent \in ParentArgs, excl \in ExcludePatterns :
           CreateBackup(n, parent, excl, "none") /\ Len(manifests') <= MaxBackups

SpecBackupExclude == InitEngines /\ [][NextBackupExclude]_vars

(***************************************************************************)
(* SpecDetect: _detect_changes applied to every pair of indices over two   *)
(* paths.                                                                  *)
(***************************************************************************)
InitDetectCall ==
    /\ InitRollback
    /\ InitTrees
    /\ InitBackup
    /\ InitSnapshot
    /\ InitDetectInputs
    /\ InitCallers
    /\ InitRacers
    /\ InitSystem
    /\ configExists = ConfigPaths
    /\ require_safety_checks
    /\ auto_create_checkpoint

NextDetect == DetectChangesCall

SpecDetect == InitDetectCall /\ [][NextDetect]_vars

MaxChain == 3

RemovalFailures == {{}} \cup {{d} : d \in DOMAIN storage}

NextBackupDelete ==
    \/ Tick
    \/ \E p \in {<<"a">>}, c \in {"x"} : WriteFile(p, c)
    \/ \E n \in BackupNames, parent \in ParentArgs :
           CreateBackup(n, parent, <<>>, "none") /\ Len(manifests') <= MaxChain
    \/ \E b \in BackupArgs, delete_children \in BOOLEAN,
          rmfail \in RemovalFailures :
           DeleteBackup(b, delete_children, rmfail)

SpecBackupDelete == InitEngines /\ [][NextBackupDelete]_vars

(***************************************************************************)
(* SpecSnapshot: the source tree changes, archive snapshots of it are      *)
(* taken without exclusions, damaged on disk and restored with and without *)
(* verification.                                                           *)
(***************************************************************************)
MaxSnapshots == 1

SnapshotArgs == SnapIds(snapshots) \cup {GhostSnapshot}

NextSnapshot ==
    \/ \E p \in Paths, c \in Contents : WriteFile(p, c)
    \/ \E p \in Paths : RemoveFile(p)
    \/ ClearDest
    \/ \E n \in SnapshotNames, format \in TarFormats :
           CreateTarSnapshot(n, format, <<>>, "none")
               /\ Len(snapshots') <= MaxSnapshots
    \/ \E path \in DOMAIN archives : CorruptArchive(path)
    \/ \E s \in SnapshotArgs, verify \in BOOLEAN, readable \in BOOLEAN :
           RestoreSnapshot(s, verify, readable)

SpecSnapshot == InitEngines /\ [][NextSnapshot]_vars

(***************************************************************************)
(* SpecSnapshotFail: archives are created while tar may fail.              *)
(* SpecMirror: mirrors are created while rsync may fail.                   *)
(* SpecCleanup: archives are created and pruned as the clock advances.     *)
(* SpecSnapshotExclude: archives are created with exclude patterns.        *)
(* SpecConcurrentCreate: two callers create archives of the same source    *)
(* at the same time.                                                       *)
(***************************************************************************)
NextSnapshotFail ==
    \/ \E p \in Paths, c \in Contents : WriteFile(p, c)
    \/ RemoveSource
    \/ \E n \in SnapshotNames, format \in TarFormats,
          fail \in SnapshotFailPoints :
           CreateTarSnapshot(n, format, <<>>, fail)
               /\ Len(snapshots') <= MaxSnapshots

MaxKeep == 1

MaxAge == 1

NextCleanup ==
    \/ Tick
    \/ \E p \in Paths, c \in Contents : WriteFile(p, c)
    \/ \E n \in SnapshotNames, format \in TarFormats :
           CreateTarSnapshot(n, format, <<>>, "none")
               /\ Len(snapshots') <= MaxSnapshots + 1
    \/ \E source_path \in SourcePaths, keep_count \in 0..MaxKeep,
          min_age_days \in 0..MaxAge :
           CleanupOldSnapshots(source_path, keep_count, min_age_days)

SpecCleanup == InitEngines /\ [][NextCleanup]_vars

NextConcurrentCreate ==
    \/ Tick
    \/ \E p \in Paths, c \in Contents : WriteFile(p, c)
    \/ \E t \in Callers, n \in SnapshotNames, format \in TarFormats :
           GenerateSnapshotId(t, n, format)
    \/ \E t \in Callers : WriteArchive(t)
    \/ \E t \in Callers : StoreRecord(t)

SpecConcurrentCreate == InitEngines /\ [][NextConcurrentCreate]_vars

NextSnapshotExclude ==
    \/ \E p \in Paths, c \in Contents : WriteFile(p, c)
    \/ \E p \in Paths : RemoveFile(p)
    \/ \E n \in SnapshotNames, format \in TarFormats,
          exclude_patterns \in ExcludePatterns :
           CreateTarSnapshot(n, format, exclude_patterns, "none")
               /\ Len(snapshots') <= MaxSnapshots + 1

SpecSnapshotExclude == InitEngines /\ [][NextSnapshotExclude]_vars

SystemTypes == {"manual"}

\* The longest name that rollback_to_snapshot is asked to prefix.
MaxNameParts == 1

SystemArgs ==
    DOMAIN system.snapshots \cup {NoSystemSnapshot, SystemSnapshotId(NoTime)}

NextSystem ==
    \/ Tick
    \/ \E n \in SystemNames, type \in SystemTypes, fail \in BOOLEAN :
           CreateSnapshot(n, type, fail)
    \/ \E id \in SystemArgs : SystemDeleteSnapshot(id)
    \/ \E id \in SystemArgs, fail \in BOOLEAN :
           /\ id \in DOMAIN system.snapshots
                  => Len(system.snapshots[id].name) <= MaxNameParts
           /\ RollbackToSnapshot(id, fail)
    \/ \E id \in SystemArgs, fail \in BOOLEAN : MarkAsLastKnownGood(id, fail)
    \/ \E keep_count \in 0..MaxKeep : SystemCleanupOldSnapshots(keep_count)

SpecSystem == InitEngines /\ [][NextSystem]_vars

NextMirror ==
    \/ Tick
    \/ \E p \in Paths, c \in Contents : WriteFile(p, c)
    \/ RemoveSource
    \/ \E n \in SnapshotNames, fail \in RsyncFailPoints :
           CreateRsyncSnapshot(n, fail) /\ Len(snapshots') <= MaxSnapshots

SpecMirror == InitEngines /\ [][NextMirror]_vars

SpecSnapshotFail == InitEngines /\ [][NextSnapshotFail]_vars

(***************************************************************************)
(* C1.  Every state change of a RollbackOperation, over any sequence of    *)
(* initiate_rollback and cancel calls, is one of PENDING->VALIDATING,      *)
(* VALIDATING->IN_PROGRESS, IN_PROGRESS->COMPLETED, IN_PROGRESS->FAILED,   *)
(* PENDING->CANCELLED, VALIDATING->CANCELLED.  The source also goes        *)
(* PENDING->IN_PROGRESS (no safety checks to run) and VALIDATING->FAILED   *)
(* (the safety gate): C1_Transitions states the claim with these two       *)
(* added, C1_Original as it was made.                                      *)
(***************************************************************************)
ClaimedTransitions ==
    { <<"pending", "validating">>, <<"validating", "in_progress">>,
      <<"in_progress", "completed">>, <<"in_progress", "failed">>,
      <<"pending", "cancelled">>, <<"validating", "cancelled">> }

SourceTransitions ==
    ClaimedTransitions \cup
        { <<"pending", "in_progress">>, <<"validating", "failed">> }

ChangesWithin(allowed) ==
    \A i \in DOMAIN opObj :
        opObj'[i].state # opObj[i].state
            => <<opObj[i].state, opObj'[i].state>> \in allowed

ReportedFailure(i) ==
    \E k \in DOMAIN opObj[i].safety_checks : ~opObj[i].safety_checks[k].passed

C2_SafetyGating ==
    \A t \in Threads :
        (thr[t].call = "initiate" /\ thr[t].op # 0 /\ ReportedFailure(thr[t].op))
            => IF thr[t].force
               THEN thr[t].pc = "idle"
                        => /\ thr[t].result = "returned"
                           /\ thr[t].op \in hist.in_progress
               ELSE /\ thr[t].pc = "idle"
                    /\ thr[t].result = "raised"
                    /\ thr[t].error_code = "SAFETY_CHECK_FAILED"
                    /\ opObj[thr[t].op].state = "failed"
                    /\ thr[t].op \notin hist.in_progress
                    /\ restore_calls = {}

C2_Witness ==
    \E t \in Threads :
        /\ thr[t].call = "initiate" /\ thr[t].pc = "idle" /\ ~thr[t].force
        /\ thr[t].error_code = "SAFETY_CHECK_FAILED"
        /\ safety_checkers # DefaultSafetyCheckers
        /\ opObj[thr[t].op].state = "failed"

(***************************************************************************)
(* C3.  At most one RollbackOperation is IN_PROGRESS at any time, for      *)
(* every interleaving of concurrent initiate_rollback calls.               *)
(***************************************************************************)
C3_OneInProgress ==
    Cardinality({i \in DOMAIN opObj : opObj[i].state = "in_progress"}) <= 1

(***************************************************************************)
(* C4.  Incremental correctness: for a full backup B0 and an incremental   *)
(* backup B1 with parent B0, restore_backup(B1) with chain following into  *)
(* an empty destination yields exactly the tree B1 was taken of: the same  *)
(* paths with the same contents, files removed since B0 being absent.      *)
(***************************************************************************)
IncrementalOn(b1, b0) ==
    /\ b1 \in Ids(manifests)
    /\ b0 \in Ids(manifests)
    /\ b1 # b0
    /\ Manifest(manifests, b1).parent_backup_id = b0
    /\ Manifest(manifests, b0).parent_backup_id = NoBackup

C4_IncrementalCorrectness ==
    [][\A b1, b0 \in Ids(manifests) :
          (/\ IncrementalOn(b1, b0)
           /\ dest.files = EmptyMap
           /\ RestoreBackup(b1, TRUE))
              => /\ bkres'.result = "True"
                 /\ dest'.files = captured[b1]]_vars

(***************************************************************************)
(* C5.  Dependency protection: delete_backup(B0) with delete_children      *)
(* unset fails and leaves every manifest and all storage in place while a  *)
(* manifest has B0 as parent; a delete_backup(B0, delete_children=True)    *)
(* that reports success has removed B0 and every descendant of B0 from the *)
(* manifest index.                                                         *)
(***************************************************************************)
RECURSIVE Descendants(_, _, _)
Descendants(ms, found, rounds) ==
    IF rounds = 0
    THEN found
    ELSE Descendants(ms,
                     found \cup {ms[i].backup_id : i \in
                                     {j \in DOMAIN ms :
                                          ms[j].parent_backup_id \in found}},
                     rounds - 1)

C5_DependencyProtection ==
    [][\A b0 \in Ids(manifests), rmfail \in RemovalFailures :
          /\ (ChildIds(manifests, b0) # <<>> /\ DeleteBackup(b0, FALSE, rmfail))
                 => /\ bkres'.result = "False"
                    /\ manifests' = manifests
                    /\ storage' = storage
          /\ (DeleteBackup(b0, TRUE, rmfail) /\ bkres'.result = "True")
                 => Descendants(manifests, {b0}, Len(manifests))
                        \cap Ids(manifests') = {}]_vars

(***************************************************************************)
(* C6.  Integrity refusal: when the record of a snapshot has a checksum    *)
(* and the archive on disk no longer hashes to it, restore_snapshot with   *)
(* verify set raises CHECKSUM_MISMATCH and the destination is left as it   *)
(* was: neither created nor written.                                       *)
(***************************************************************************)
ArchiveAltered(snapshot_id) ==
    LET metadata == Snapshot(snapshots, snapshot_id)
    IN  /\ metadata.checksum # NoChecksum
        /\ metadata.snapshot_path \in DOMAIN archives
        /\ CalculateChecksum(archives[metadata.snapshot_path])
               # metadata.checksum

C6_IntegrityRefusal ==
    [][\A s \in SnapIds(snapshots), readable \in BOOLEAN :
          (ArchiveAltered(s) /\ RestoreSnapshot(s, TRUE, readable))
              => /\ snres'.result = "raised"
                 /\ snres'.error_code = "CHECKSUM_MISMATCH"
                 /\ dest' = dest]_vars

C6_Witness ==
    /\ snres.call = "restore"
    /\ snres.error_code = "CHECKSUM_MISMATCH"
    /\ snres.snapshot_id \in SnapIds(snapshots)
    /\ ArchiveAltered(snres.snapshot_id)
    /\ Snapshot(snapshots, snres.snapshot_id).file_count > 0
    /\ ~dest.exists

(***************************************************************************)
(* C7.  cancel succeeds only on an operation it found PENDING or           *)
(* VALIDATING, and then leaves it CANCELLED; on an operation it found      *)
(* IN_PROGRESS, COMPLETED, FAILED or CANCELLED it leaves the state as it   *)
(* was and (C7_Original) fails with InvalidStateTransition, (C7_Cancel)    *)
(* returns False without raising.                                          *)
(***************************************************************************)
CancelReturned(t) ==
    thr[t].call = "cancel" /\ thr[t].pc = "idle" /\ thr[t].op # 0

CancelSucceeded(t) ==
    /\ thr[t].seen \in {"pending", "validating"}
    /\ thr[t].result = "True"
    /\ thr[t].after = "cancelled"

C7_Original ==
    \A t \in Threads :
        CancelReturned(t)
            => \/ CancelSucceeded(t)
               \/ /\ thr[t].seen \in
                         {"in_progress", "completed", "failed", "cancelled"}
                  /\ thr[t].result = "raised"
                  /\ thr[t].error_code = "INVALID_STATE_TRANSITION"
                  /\ thr[t].after = thr[t].seen

C7_Cancel ==
    \A t \in Threads :
        CancelReturned(t)
            => \/ CancelSucceeded(t)
               \/ /\ thr[t].seen \in
                         {"in_progress", "completed", "failed", "cancelled"}
                  /\ thr[t].result = "False"
                  /\ thr[t].error_code = "none"
                  /\ thr[t].after = thr[t].seen

C7_Witness ==
    \E t \in Threads :
        /\ CancelReturned(t)
        /\ thr[t].result = "False"
        /\ thr[t].seen = "in_progress"
        /\ hist.cancelled # {}

(***************************************************************************)
(* C8.  Cancellation is honoured: an operation for which cancel returned   *)
(* success never afterwards is IN_PROGRESS, COMPLETED or FAILED.           *)
(***************************************************************************)
C8_CancellationHonoured ==
    \A i \in hist.cancelled :
        opObj[i].state \notin {"in_progress", "completed", "failed"}

(***************************************************************************)
(* C9.  Rollback dispatch: an operation is COMPLETED only after the        *)
(* restore of the artifact its point references (the snapshot for the      *)
(* filesystem scope, the backup for the application scope) was invoked.    *)
(***************************************************************************)
ReferencedRestore(point) ==
    CASE point.scope = "filesystem" /\ point.snapshot_id # NoStr
             -> {<<"restore_snapshot", point.snapshot_id>>}
      [] point.scope = "application" /\ point.backup_id # NoStr
             -> {<<"restore_backup", point.backup_id>>}
      [] OTHER -> {}

C9_Dispatch ==
    \A i \in DOMAIN opObj :
        (opObj[i].state = "completed" /\ opObj[i].point_id \in DOMAIN rollback_points)
            => ReferencedRestore(rollback_points[opObj[i].point_id])
                   \subseteq restore_calls

(***************************************************************************)
(* C10.  Verification gate: initiate_rollback on an unknown point raises   *)
(* POINT_NOT_FOUND; on a known point whose verification fails, with force  *)
(* unset, it raises VERIFICATION_FAILED; in both cases no operation and no *)
(* checkpoint is created and no restore dispatched.  C10_Original adds     *)
(* what the claim says of force (the point is not verified when force is   *)
(* set, so its verified flag stays), C10_VerificationGate what the source  *)
(* does (the point is verified whatever force is).                         *)
(***************************************************************************)
InitiateBegins(t) ==
    thr[t].pc = "idle" /\ thr'[t] # thr[t] /\ thr'[t].call = "initiate"

NothingCreated ==
    /\ DOMAIN rollback_points' = DOMAIN rollback_points
    /\ opObj' = opObj
    /\ operations' = operations
    /\ restore_calls' = restore_calls

RaisedBy(t, code) ==
    /\ thr'[t].pc = "idle"
    /\ thr'[t].result = "raised"
    /\ thr'[t].error_code = code

GateOnPoint(t) ==
    LET p == thr'[t].point_id
    IN  /\ p \notin DOMAIN rollback_points
            => RaisedBy(t, "POINT_NOT_FOUND") /\ NothingCreated
        /\ (p \in DOMAIN rollback_points /\ ~VerifyValid(p) /\ ~thr'[t].force)
            => RaisedBy(t, "VERIFICATION_FAILED") /\ NothingCreated
        /\ (p \in DOMAIN rollback_points /\ (VerifyValid(p) \/ thr'[t].force))
            => thr'[t].result = "running" /\ Len(opObj') = Len(opObj) + 1

C10_Original ==
    [][\A t \in Threads :
          InitiateBegins(t)
              => /\ GateOnPoint(t)
                 /\ (thr'[t].point_id \in DOMAIN rollback_points /\ thr'[t].force)
                        => rollback_points'[thr'[t].point_id].verified
                               = rollback_points[thr'[t].point_id].verified]_vars

C10_VerificationGate ==
    [][\A t \in Threads :
          InitiateBegins(t)
              => /\ GateOnPoint(t)
                 /\ thr'[t].point_id \in DOMAIN rollback_points
                        => rollback_points'[thr'[t].point_id].verified
                               = VerifyValid(thr'[t].point_id)]_vars

C10_Witness ==
    \E t \in Threads :
        /\ thr[t].call = "initiate"
        /\ thr[t].error_code = "VERIFICATION_FAILED"
        /\ thr[t].point_id \in DOMAIN rollback_points
        /\ ~rollback_points[thr[t].point_id].verified
        /\ opObj # <<>>

(***************************************************************************)
(* C11. verify_point(point_id) returns true exactly when every artifact    *)
(* the point references resolves to an existing artifact: its snapshot id  *)
(* in the snapshot store, its backup id in the manifest store and its      *)
(* configuration copy on disk; the returned value is stored in the point's *)
(* verified flag.                                                          *)
(***************************************************************************)
ArtifactsResolve(point) ==
    /\ point.snapshot_id # NoStr => point.snapshot_id \in SnapIds(snapshots)
    /\ point.backup_id # NoStr => point.backup_id \in Ids(manifests)
    /\ point.config_backup # NoStr => point.config_backup \in configExists

VerifiedAgain(t, p) ==
    /\ thr[t].call = "verify"
    /\ thr[t].point_id = p
    /\ thr[t].basis = VerifyBasis(p)

C12_IdempotentVerify ==
    [][\A t \in Threads : \A p \in PointArgs :
          VerifyRollbackPoint(t, p) /\ VerifiedAgain(t, p)
              => /\ thr'[t].result = thr[t].result
                 /\ p \in DOMAIN rollback_points
                        => rollback_points'[p].verified
                               = (thr'[t].result = "True")]_vars

C12_Witness ==
    \E t \in Threads :
        /\ thr[t].call = "verify"
        /\ thr[t].repeat = 2
        /\ thr[t].point_id \in DOMAIN rollback_points
        /\ thr[t].result = "False"
        /\ ~rollback_points[thr[t].point_id].verified

(***************************************************************************)
(* C13. Auto-checkpoint ordering: with auto-checkpointing enabled, an      *)
(* operation enters IN_PROGRESS only after a fresh RollbackPoint has been  *)
(* created and its id recorded as the operation's pre-rollback checkpoint; *)
(* with auto-checkpointing disabled the pre-rollback checkpoint id stays   *)
(* absent and no point is created.                                         *)
(***************************************************************************)
EntersInProgress(i) ==
    /\ opObj[i].state # "in_progress"
    /\ opObj'[i].state = "in_progress"

Checkpointed(i) ==
    LET op == opObj[i]
        checkpoint == op.pre_rollback_point
    IN  /\ checkpoint # NoId
        /\ checkpoint # op.point_id
        /\ checkpoint \in DOMAIN rollback_points
        /\ rollback_points[checkpoint]
               = NewPoint(PreRollbackName(op.operation_id),
                          rollback_points[op.point_id].scope, NoStr, NoStr,
                          NoStr)

NoCheckpoints ==
    /\ \A i \in DOMAIN opObj : opObj[i].pre_rollback_point = NoId
    /\ DOMAIN rollback_points = UserPoints

C13_CheckpointFirst ==
    [][/\ \A i \in DOMAIN opObj :
              EntersInProgress(i) /\ auto_create_checkpoint => Checkpointed(i)
       /\ ~auto_create_checkpoint => NoCheckpoints /\ NoCheckpoints']_vars

C13_Witness ==
    \E i \in DOMAIN opObj :
        /\ auto_create_checkpoint
        /\ opObj[i].state = "in_progress"
        /\ Checkpointed(i)

(***************************************************************************)
(* C14. Outcome recording: an operation whose restore succeeds ends        *)
(* COMPLETED with an end timestamp and no error message; an operation      *)
(* during which an exception is raised ends FAILED with the error message  *)
(* recorded and the exception re-raised to the caller; every operation in  *)
(* COMPLETED, FAILED or CANCELLED has its end timestamp set.               *)
(***************************************************************************)
InitiateEnds(t) ==
    /\ thr[t].call = "initiate"
    /\ thr[t].pc # "idle"
    /\ thr'[t].pc = "idle"

TerminalStates == {"completed", "failed", "cancelled"}

EndTimestamps ==
    \A i \in DOMAIN opObj :
        opObj[i].state \in TerminalStates => opObj[i].completed_at # NoTime

OutcomeRecorded(t) ==
    LET op == opObj'[thr[t].op]
    IN  /\ thr'[t].result \in {"returned", "raised"}
        /\ thr'[t].result = "returned"
               => /\ op.state = "completed"
                  /\ op.completed_at = now
                  /\ op.error_message = NoStr
        /\ thr'[t].result = "raised"
               => /\ op.state = "failed"
                  /\ op.completed_at = now
                  /\ op.error_message # NoStr

GateRaises(t) ==
    /\ thr[t].pc = "checks"
    /\ thr'[t].error_code = "SAFETY_CHECK_FAILED"

CarriesFailingKinds(t) ==
    LET results == opObj'[thr[t].op].safety_checks
    IN  /\ \E env \in Environments : results = RunSafetyChecks(env)
        /\ DOMAIN results = DOMAIN safety_checkers
        /\ thr'[t].failed = {k \in DOMAIN results : results[k].passed = FALSE}
        /\ thr'[t].failed # {}

C15_FailingKinds ==
    [][\A t \in Threads : GateRaises(t) => CarriesFailingKinds(t)]_vars

C15_Witness ==
    \E t \in Threads :
        /\ thr[t].error_code = "SAFETY_CHECK_FAILED"
        /\ "backup_integrity" \in thr[t].failed
        /\ "disk_space" \in thr[t].failed
        /\ "running_processes" \in DOMAIN opObj[thr[t].op].safety_checks
        /\ "running_processes" \notin thr[t].failed

(***************************************************************************)
(* C16. A safety check that cannot be evaluated, whether its checker is    *)
(* built in or custom-registered, is recorded as passed with an            *)
(* explanatory message and never blocks the rollback: when every check     *)
(* that failed was one that could not be evaluated, initiate_rollback does *)
(* not raise SafetyCheckFailed.                                            *)
(***************************************************************************)
Unevaluable(result) == result.message \in {"skipped", "exception"}

C16_UnevaluablePasses ==
    /\ \A i \in DOMAIN opObj : \A k \in DOMAIN opObj[i].safety_checks :
           Unevaluable(opObj[i].safety_checks[k])
               => opObj[i].safety_checks[k].passed
    /\ \A t \in Threads :
           thr[t].error_code = "SAFETY_CHECK_FAILED"
               => \E k \in thr[t].failed :
                      ~Unevaluable(opObj[thr[t].op].safety_checks[k])

(***************************************************************************)
(* C17. One operation exists per rollback attempt: every call of           *)
(* initiate_rollback on an existing point adds exactly one                 *)
(* RollbackOperation to the operation index, whether the attempt succeeds, *)
(* fails verification or fails the safety gate, and no operation record is *)
(* ever removed or replaced afterwards.                                    *)
(***************************************************************************)
OperationsKept ==
    \A id \in DOMAIN operations :
        /\ id \in DOMAIN operations'
        /\ operations'[id] = operations[id]

C17_OnePerAttempt ==
    [][/\ \A t \in Threads :
              (InitiateBegins(t) /\ thr'[t].point_id \in DOMAIN rollback_points)
                  => Cardinality(DOMAIN operations')
                         = Cardinality(DOMAIN operations) + 1
       /\ OperationsKept]_vars

(***************************************************************************)
(* C18. Manifest counts match the diff: for an incremental backup with an  *)
(* existing parent, the manifest's new, modified and deleted counts equal  *)
(* the sizes of (current paths minus parent paths), (common paths whose    *)
(* content hash differs) and (parent paths minus current paths); for a     *)
(* backup with no parent every file is counted new and the modified and    *)
(* deleted counts are 0.                                                   *)
(***************************************************************************)
BackupCreated == Len(manifests') = Len(manifests) + 1

CountsMatchDiff(m, parent) ==
    LET current_paths == DOMAIN m.files
        parent_paths == DOMAIN parent.files
    IN  /\ m.new_files = Cardinality(current_paths \ parent_paths)
        /\ m.modified_files =
               Cardinality({p \in current_paths \cap parent_paths :
                               m.files[p].checksum # parent.files[p].checksum})
        /\ m.deleted_files = Cardinality(parent_paths \ current_paths)

CountsAllNew(m) ==
    /\ m.new_files = Cardinality(DOMAIN m.files)
    /\ m.modified_files = 0
    /\ m.deleted_files = 0

C18_ManifestCounts ==
    [][BackupCreated
          => LET m == manifests'[Len(manifests')]
             IN  /\ m.parent_backup_id \in Ids(manifests)
                        => CountsMatchDiff(
                               m, Manifest(manifests, m.parent_backup_id))
                 /\ m.parent_backup_id = NoBackup => CountsAllNew(m)]_vars

C18_Witness ==
    \E i \in DOMAIN manifests, j \in DOMAIN manifests :
        /\ manifests[i].parent_backup_id = NoBackup
        /\ manifests[i].new_files = 2
        /\ manifests[j].parent_backup_id = manifests[i].backup_id
        /\ manifests[j].modified_files = 1
        /\ manifests[j].deleted_files = 1

(***************************************************************************)
(* C19. diff(current, previous) classifies a path present in both indices  *)
(* as modified if and only if its content hash differs (size and           *)
(* modification time never decide); new is current minus previous, deleted *)
(* is previous minus current, and the three sets are pairwise disjoint.    *)
(***************************************************************************)
C19_DiffClassification ==
    detect.called
        => LET current == detect.current_index
               previous == detect.previous_index
               changes == detect.changes
               common == DOMAIN current \cap DOMAIN previous
           IN  /\ changes.modified_files \subseteq common
               /\ \A p \in common :
                      p \in changes.modified_files
                          <=> current[p].checksum # previous[p].checksum
               /\ changes.new_files = DOMAIN current \ DOMAIN previous
               /\ changes.deleted_files = DOMAIN previous \ DOMAIN current
               /\ changes.new_files \cap changes.modified_files = {}
               /\ changes.new_files \cap changes.deleted_files = {}
               /\ changes.modified_files \cap changes.deleted_files = {}

C19_Witness ==
    /\ detect.called
    /\ detect.changes.modified_files = {<<"a">>}
    /\ detect.current_index[<<"a">>].size = detect.previous_index[<<"a">>].size
    /\ detect.current_index[<<"a">>].mtime
           = detect.previous_index[<<"a">>].mtime
    /\ <<"b">> \in DOMAIN detect.current_index \cap DOMAIN detect.previous_index
    /\ detect.current_index[<<"b">>].size # detect.previous_index[<<"b">>].size
    /\ detect.current_index[<<"b">>].mtime
           # detect.previous_index[<<"b">>].mtime

(***************************************************************************)
(* C20. create_backup physically copies exactly the files in new and       *)
(* modified, and the persisted manifest's file index contains every        *)
(* non-excluded file present in the source at capture time, with           *)
(* backed_up true exactly for the copied files.                            *)
(***************************************************************************)
NotExcluded(tree, exclude_patterns) ==
    {p \in DOMAIN tree :
        \A i \in DOMAIN exclude_patterns : ~IsSubstring(exclude_patterns[i], p)}

NewOrModified(tree, paths, parent_backup_id) ==
    IF parent_backup_id \in Ids(manifests)
    THEN LET previous == Manifest(manifests, parent_backup_id).files
         IN  {p \in paths :
                 \/ p \notin DOMAIN previous
                 \/ previous[p].checksum # Md5(tree[p])}
    ELSE paths

CopiesAndIndex(parent_backup_id, exclude_patterns) ==
    LET m == manifests'[Len(manifests')]
        paths == NotExcluded(source.files, exclude_patterns)
        copied == NewOrModified(source.files, paths, parent_backup_id)
    IN  /\ m.backup_dir \in DOMAIN storage'
        /\ storage'[m.backup_dir].manifest
        /\ storage'[m.backup_dir].files = [p \in copied |-> source.files[p]]
        /\ DOMAIN m.files = paths
        /\ \A p \in paths :
               /\ m.files[p].checksum = Md5(source.files[p])
               /\ m.files[p].backed_up <=> p \in copied

C20_CopiesAndIndex ==
    [][\A n \in BackupNames, parent \in ParentArgs, excl \in ExcludePatterns :
          CreateBackup(n, parent, excl, "none") /\ BackupCreated
              => CopiesAndIndex(parent, excl)]_vars

C20_Witness ==
    \E i \in DOMAIN manifests :
        LET m == manifests[i]
        IN  /\ m.parent_backup_id \in Ids(manifests)
            /\ <<"d", "/", "a">> \in DOMAIN captured[m.backup_id]
            /\ DOMAIN m.files = {<<"a">>}
            /\ ~m.files[<<"a">>].backed_up
            /\ storage[m.backup_dir].files = EmptyMap
            /\ Manifest(manifests, m.parent_backup_id).files[<<"a">>].backed_up

(***************************************************************************)
(* C21. Restore chain order: restore_backup with chain following replays a *)
(* chain that starts at the root full backup, ends at the target and in    *)
(* which each element is the parent of the next; each backup's physically  *)
(* stored files are copied in that order, so for a path stored by several  *)
(* backups of the chain the destination ends with the copy from the newest *)
(* of them (and a path stored by none of them is left as it was).          *)
(***************************************************************************)
ChainsTo(backup_id) ==
    {c \in UNION {[1..n -> Ids(manifests)] : n \in 1..Len(manifests)} :
        /\ c[Len(c)] = backup_id
        /\ Manifest(manifests, c[1]).parent_backup_id = NoBackup
        /\ \A i \in 1..(Len(c) - 1) :
               Manifest(manifests, c[i + 1]).parent_backup_id = c[i]}

StoresPath(backup_id, p) ==
    LET m == Manifest(manifests, backup_id)
    IN  /\ p \in DOMAIN m.files
        /\ m.files[p].backed_up
        /\ m.backup_dir \in DOMAIN storage
        /\ p \in DOMAIN storage[m.backup_dir].files

StoredContent(backup_id, p) ==
    storage[Manifest(manifests, backup_id).backup_dir].files[p]

NewestWins(c) ==
    \A p \in Paths :
        LET storing == {i \in DOMAIN c : StoresPath(c[i], p)}
        IN  IF storing = {}
            THEN /\ p \in DOMAIN dest'.files <=> p \in DOMAIN dest.files
                 /\ p \in DOMAIN dest.files => dest'.files[p] = dest.files[p]
            ELSE /\ p \in DOMAIN dest'.files
                 /\ dest'.files[p] =
                        StoredContent(
                            c[CHOOSE i \in storing : \A j \in storing : j <= i],
                            p)

C21_RestoreChainOrder ==
    [][(/\ source' = source
        /\ manifests' = manifests
        /\ bkres'.backup_id \in Ids(manifests)
        /\ RestoreBackup(bkres'.backup_id, TRUE))
           => /\ bkres'.result = "True"
              /\ \E c \in ChainsTo(bkres'.backup_id) : NewestWins(c)]_vars

C21_Witness ==
    /\ bkres.call = "restore"
    /\ bkres.result = "True"
    /\ \E c \in ChainsTo(bkres.backup_id) :
           /\ Len(c) = 2
           /\ StoresPath(c[1], <<"a">>)
           /\ StoresPath(c[2], <<"a">>)
           /\ StoredContent(c[1], <<"a">>) # StoredContent(c[2], <<"a">>)
           /\ <<"a">> \in DOMAIN dest.files
           /\ dest.files[<<"a">>] = StoredContent(c[2], <<"a">>)

(***************************************************************************)
(* C22. Additive scenario: for a full backup B0 of tree T0 and an          *)
(* incremental backup B1 (with parent B0) of T1, where T1 differs from T0  *)
(* only by modified and added files, restore_backup of B1 into an empty    *)
(* destination, the original tree being deleted or not, yields exactly the *)
(* files of T1 with their post-modification contents.                      *)
(***************************************************************************)
Additive(b1, b0) ==
    /\ IncrementalOn(b1, b0)
    /\ DOMAIN captured[b0] \subseteq DOMAIN captured[b1]

C22_AdditiveScenario ==
    [][\A b0 \in Ids(manifests) :
          (/\ source' = source
           /\ manifests' = manifests
           /\ Additive(bkres'.backup_id, b0)
           /\ dest.files = EmptyMap
           /\ RestoreBackup(bkres'.backup_id, TRUE))
              => /\ bkres'.result = "True"
                 /\ dest'.files = captured[bkres'.backup_id]]_vars

C22_Witness ==
    \E b0 \in Ids(manifests) :
        /\ bkres.call = "restore"
        /\ bkres.result = "True"
        /\ Additive(bkres.backup_id, b0)
        /\ ~source.exists
        /\ captured[b0] = (<<"a">> :> "x")
        /\ captured[bkres.backup_id] = (<<"a">> :> "y" @@ <<"d", "/", "a">> :> "x")
        /\ dest.files = captured[bkres.backup_id]

(***************************************************************************)
(* C23. Round-trip: for a source tree T archived with no exclusions,       *)
(* restoring the resulting snapshot into an empty destination produces a   *)
(* tree with exactly the relative paths of T and the same contents at each *)
(* path (the destination root corresponds to the root of T).               *)
(***************************************************************************)
ArchivedTree(snapshot_id, tree) ==
    LET metadata == Snapshot(snapshots, snapshot_id)
    IN  /\ metadata.snapshot_path \in DOMAIN archives
        /\ ~archives[metadata.snapshot_path].damaged
        /\ archives[metadata.snapshot_path].members = TarMembers(tree, <<>>)

C23_RoundTrip ==
    [][\A s \in SnapIds(snapshots), verify \in BOOLEAN :
          (/\ ArchivedTree(s, source.files)
           /\ dest.files = EmptyMap
           /\ RestoreSnapshot(s, verify, TRUE))
              => /\ snres'.result = "True"
                 /\ dest'.files = source.files]_vars

(***************************************************************************)
(* C24. create_backup failure cleanup: whenever create_backup fails at any *)
(* step (scan, copy or persisting the manifest), the backup's storage      *)
(* directory no longer exists and the manifest index is unchanged;         *)
(* conversely every manifest in the index has its manifest file persisted  *)
(* in its storage directory.                                               *)
(***************************************************************************)
ManifestsPersisted ==
    \A i \in DOMAIN manifests :
        /\ manifests[i].backup_dir \in DOMAIN storage
        /\ storage[manifests[i].backup_dir].manifest

FailureCleanedUp(name, fail) ==
    /\ fail # "none" => bkres'.result = "raised"
    /\ bkres'.result = "raised"
           => /\ manifests' = manifests
              /\ BackupSubdir(name, bkres'.backup_id) \notin DOMAIN storage'

C24_FailureCleanup ==
    [][/\ \A n \in BackupNames, parent \in ParentArgs, fail \in FailPoints :
              CreateBackup(n, parent, <<>>, fail) => FailureCleanedUp(n, fail)
       /\ ManifestsPersisted']_vars

(***************************************************************************)
(* C25. create_archive failure cleanup: whenever create_tar_snapshot fails *)
(* after starting to write, the partially written archive file has been    *)
(* deleted before the error reaches the caller and the snapshot index is   *)
(* unchanged; the index contains only records of fully written archives.   *)
(***************************************************************************)
FullyWritten(metadata) ==
    /\ metadata.snapshot_path \in DOMAIN archives
    /\ archives[metadata.snapshot_path] # PartialFile(metadata.format)
    /\ CalculateChecksum(archives[metadata.snapshot_path]) = metadata.checksum

TarRecords == {i \in DOMAIN snapshots : snapshots[i].format \in TarFormats}

C25_ArchiveFailureCleanup ==
    [][\A n \in SnapshotNames, format \in TarFormats :
           (source.exists /\ CreateTarSnapshot(n, format, <<>>, "write"))
               => /\ snres'.result = "raised"
                  /\ snres'.error_code = "SNAPSHOT_FAILED"
                  /\ SnapshotFile(n, snres'.snapshot_id, format)
                         \notin DOMAIN archives'
                  /\ snapshots' = snapshots
                  /\ \A i \in TarRecords' : FullyWritten(snapshots[i])']_vars

C25_Witness ==
    /\ snres.call = "create"
    /\ snres.error_code = "SNAPSHOT_FAILED"
    /\ TarRecords # {}
    /\ \A i \in TarRecords : FullyWritten(snapshots[i])

(***************************************************************************)
(* C26. Partial artifacts are removed on failure for mirror snapshots too: *)
(* whenever create_rsync_snapshot fails (copy tool error, timeout, tool    *)
(* missing), the snapshot directory it created no longer exists and no     *)
(* record is added to the snapshot index.                                  *)
(***************************************************************************)
C26_MirrorFailureCleanup ==
    [][\A n \in SnapshotNames, fail \in RsyncFailPoints \ {"none"} :
           (source.exists /\ CreateRsyncSnapshot(n, fail))
               => /\ snres'.result = "raised"
                  /\ SnapshotFile(n, snres'.snapshot_id, "rsync")
                         \notin DOMAIN archives'
                  /\ snapshots' = snapshots]_vars

(***************************************************************************)
(* C27. Retention pruning: cleanup_old_snapshots(source, keep_count,       *)
(* min_age) with min_age = 0 leaves at most keep_count snapshots of that   *)
(* source, for every keep_count >= 0, 0 included; those remaining are the  *)
(* newest ones; snapshots younger than min_age are never deleted;          *)
(* snapshots of other source paths are untouched; the return value is the  *)
(* number of records removed.                                              *)
(***************************************************************************)
RecordsOf(ss, source_path) ==
    {ss[i] : i \in ListSnapshots(ss, source_path)}

Pruned(source_path, keep_count, min_age_days) ==
    LET before == RecordsOf(snapshots, source_path)
        after == RecordsOf(snapshots', source_path)
        removed == before \ after
    IN  /\ after \subseteq before
        /\ min_age_days = 0 => Cardinality(after) <= keep_count
        /\ \A d \in removed, r \in after : d.created_at <= r.created_at
        /\ \A d \in removed : now - d.created_at >= min_age_days
        /\ \A other \in SourcePaths \ {source_path} :
               RecordsOf(snapshots', other) = RecordsOf(snapshots, other)
        /\ snres'.result = Len(snapshots) - Len(snapshots')

C27_RetentionPruning ==
    [][\A source_path \in SourcePaths, keep_count \in 0..MaxKeep,
          min_age_days \in 0..MaxAge :
           CleanupOldSnapshots(source_path, keep_count, min_age_days)
               => Pruned(source_path, keep_count, min_age_days)]_vars

(***************************************************************************)
(* C28. verify_backup(backup_id) returns true if and only if the backup is *)
(* known, its storage directory exists and every file the manifest marks   *)
(* as physically copied is present on disk; the result does not depend on  *)
(* the contents of the files, and the call changes no state.               *)
(***************************************************************************)
CopiedFiles(backup_id) ==
    {p \in DOMAIN Manifest(manifests, backup_id).files :
         Manifest(manifests, backup_id).files[p].backed_up}

CopiedPresent(backup_id) ==
    LET dir == Manifest(manifests, backup_id).backup_dir
    IN  /\ dir \in DOMAIN storage
        /\ CopiedFiles(backup_id) \subseteq DOMAIN storage[dir].files

Blank(st) ==
    [dir \in DOMAIN st |->
        [st[dir] EXCEPT !.files = [p \in DOMAIN st[dir].files |-> "x"]]]

C28_VerifyBackup ==
    [][\A b \in BackupArgs :
           VerifyBackup(b)
               => /\ bkres'.result \in {"True", "False"}
                  /\ bkres'.result = "True"
                         <=> (b \in Ids(manifests) /\ CopiedPresent(b))
                  /\ bkres'.result = "True"
                         <=> VerifyResult(manifests, Blank(storage), b)
                  /\ UNCHANGED <<manifests, storage, source, dest>>]_vars

\* A backup whose directory is there and one of whose copied files is gone
\* was verified.
C28_Witness ==
    /\ bkres.call = "verify"
    /\ bkres.result = "False"
    /\ bkres.backup_id \in Ids(manifests)
    /\ Manifest(manifests, bkres.backup_id).backup_dir \in DOMAIN storage
    /\ ~CopiedPresent(bkres.backup_id)

(***************************************************************************)
(* C30. No silent loss on restore: whenever restore_backup returns         *)
(* success, every path of the target manifest's file index exists under    *)
(* dest_path with content whose hash is the one the manifest records; a    *)
(* physically stored file that is missing from the backup storage, or a    *)
(* parent missing from the chain, makes restore_backup fail with           *)
(* RESTORE_FAILED instead of returning success.                            *)
(***************************************************************************)
RestoredAsRecorded(backup_id, tree) ==
    \A p \in DOMAIN Manifest(manifests, backup_id).files :
        /\ p \in DOMAIN tree
        /\ Md5(tree[p]) = Manifest(manifests, backup_id).files[p].checksum

ChainOf(backup_id) ==
    LET chain == RestoreChain(manifests, backup_id, TRUE)
    IN  {chain[i] : i \in DOMAIN chain}

MissingStoredFile(backup_id) ==
    \E b \in ChainOf(backup_id) :
        \E p \in DOMAIN Manifest(manifests, b).files :
            /\ Manifest(manifests, b).files[p].backed_up
            /\ ~Stored(storage, Manifest(manifests, b).files[p].backup_path)

MissingParent(backup_id) ==
    \E b \in ChainOf(backup_id) :
        /\ Manifest(manifests, b).parent_backup_id # NoBackup
        /\ Manifest(manifests, b).parent_backup_id \notin Ids(manifests)

C30_NoSilentLoss ==
    [][(/\ manifests' = manifests
        /\ bkres'.backup_id \in Ids(manifests)
        /\ RestoreBackup(bkres'.backup_id, TRUE))
           => /\ bkres'.result = "True"
                  => RestoredAsRecorded(bkres'.backup_id, dest'.files)
              /\ (MissingStoredFile(bkres'.backup_id)
                      \/ MissingParent(bkres'.backup_id))
                  => /\ bkres'.result = "raised"
                     /\ bkres'.error_code = "RESTORE_FAILED"]_vars

(***************************************************************************)
(* C29. Two create_tar_snapshot calls for the same source path and name    *)
(* that overlap in time never write to the same archive file: they are     *)
(* serialized or receive distinct identifiers, so neither call's archive   *)
(* or record is overwritten by the other.                                  *)
(***************************************************************************)
ArchiveOf(t) ==
    SnapshotFile(callers[t].name, callers[t].snapshot_id, callers[t].format)

Overlapping(t, u) ==
    /\ t # u
    /\ callers[t].pc # "idle" /\ callers[u].pc # "idle"
    /\ callers[t].overlapped /\ callers[u].overlapped

C29_DistinctArtifacts ==
    /\ \A t \in Callers, u \in Callers :
           Overlapping(t, u) => ArchiveOf(t) # ArchiveOf(u)
    /\ \A t \in Callers :
           callers[t].pc = "returned" /\ callers[t].overlapped
               => /\ callers[t].snapshot_id \in SnapIds(snapshots)
                  /\ Snapshot(snapshots, callers[t].snapshot_id).checksum
                         = callers[t].checksum

(***************************************************************************)
(* C31. Chain resolvability: after any sequence of create_backup and       *)
(* delete_backup calls, for every manifest M of the index and every path p *)
(* of M's file index with backed_up = false, some ancestor of M reachable  *)
(* through parent links in the index has backed_up = true for p with the   *)
(* content hash M records for p.                                           *)
(***************************************************************************)
RECURSIVE ResolvesAbove(_, _, _, _)
ResolvesAbove(backup_id, p, checksum, steps) ==
    LET parent_id == Manifest(manifests, backup_id).parent_backup_id
    IN  /\ parent_id # NoBackup
        /\ parent_id \in Ids(manifests)
        /\ LET files == Manifest(manifests, parent_id).files
           IN  \/ /\ p \in DOMAIN files
                  /\ files[p].backed_up
                  /\ files[p].checksum = checksum
               \/ /\ steps > 0
                  /\ ResolvesAbove(parent_id, p, checksum, steps - 1)

C31_ChainResolvable ==
    \A i \in DOMAIN manifests :
        \A p \in DOMAIN manifests[i].files :
            ~manifests[i].files[p].backed_up
                => ResolvesAbove(manifests[i].backup_id, p,
                                 manifests[i].files[p].checksum,
                                 Len(manifests))

(***************************************************************************)
(* C32. A create_backup with parent B0 running concurrently with           *)
(* delete_backup(B0, delete_children=false) never results in a manifest    *)
(* index that contains the child but not B0: the child check and the       *)
(* removal in delete_backup are atomic with respect to the insertion of a  *)
(* new child manifest.                                                     *)
(***************************************************************************)
C32_CreateDeleteAtomic ==
    LET child == racers.create.manifest
    IN  (/\ racers.create.pc = "returned"
         /\ racers.delete.pc = "returned"
         /\ child.parent_backup_id = racers.delete.backup_id
         /\ child.backup_id \in Ids(manifests))
            => child.parent_backup_id \in Ids(manifests)

(***************************************************************************)
(* C33. Every initiate_rollback call that created an operation leaves it   *)
(* in a terminal state when the call returns or raises: no operation is    *)
(* left PENDING, VALIDATING or IN_PROGRESS after its initiate_rollback     *)
(* call has ended, whatever the outcome of verification, safety checks,    *)
(* checkpoint creation and restore.                                        *)
(***************************************************************************)
Initiating(t) == thr[t].call = "initiate" /\ thr[t].pc # "idle"

OwnedWhileOpen ==
    \A i \in DOMAIN opObj :
        opObj[i].state \notin TerminalStates
            => \E t \in Threads : Initiating(t) /\ thr[t].op = i

C33_EndsTerminal ==
    [][/\ \A t \in Threads :
              (InitiateEnds(t) /\ thr[t].op \in DOMAIN opObj)
                  => opObj'[thr[t].op].state \in TerminalStates
       /\ OwnedWhileOpen']_vars

\* A call ended by an exception of checkpoint creation or of the restore.
C33_Witness ==
    \E t \in Threads :
        /\ thr[t].call = "initiate"
        /\ thr[t].pc = "idle"
        /\ thr[t].error_code = "EXCEPTION"
        /\ thr[t].op \in DOMAIN opObj
        /\ opObj[thr[t].op].state = "failed"
        /\ opObj[thr[t].op].pre_rollback_point # NoId

(***************************************************************************)
(* C34. The file count stored in a snapshot record equals the number of    *)
(* regular files contained in the archive, also when exclude patterns      *)
(* removed files from the archive.                                         *)
(***************************************************************************)
C34_FileCount ==
    \A i \in TarRecords :
        snapshots[i].snapshot_path \in DOMAIN archives
            => snapshots[i].file_count
                   = Cardinality(DOMAIN archives[snapshots[i].snapshot_path].members)

(***************************************************************************)
(* C35. No orphan after a cascading delete: if delete_backup(B0,           *)
(* delete_children=true) cannot delete some descendant of B0, B0 itself is *)
(* not removed; so after any sequence of delete_backup calls every         *)
(* manifest whose parent existed in the index when it was created still    *)
(* has its parent in the index.                                            *)
(***************************************************************************)
ParentsIndexed(ms) ==
    \A i \in DOMAIN ms :
        ms[i].parent_backup_id # NoBackup
            => ms[i].parent_backup_id \in Ids(ms)

C35_NoOrphan ==
    [][\A b0 \in Ids(manifests), rmfail \in RemovalFailures :
           (ParentsIndexed(manifests) /\ DeleteBackup(b0, TRUE, rmfail))
               => /\ (Descendants(manifests, {b0}, Len(manifests)) \ {b0})
                          \cap Ids(manifests') # {}
                      => b0 \in Ids(manifests')
                  /\ ParentsIndexed(manifests')]_vars

(***************************************************************************)
(* C36. The parent relation over the manifest index is acyclic after any   *)
(* sequence of create_backup and delete_backup calls, so the chain walk of *)
(* restore_backup and get_backup_chain terminates and returns a chain in   *)
(* which no backup id occurs twice.                                        *)
(***************************************************************************)
RECURSIVE Ancestors(_, _, _)
Ancestors(ms, found, rounds) ==
    IF rounds = 0
    THEN found
    ELSE Ancestors(ms,
                   found \cup {ms[i].parent_backup_id : i \in
                                   {j \in DOMAIN ms :
                                        /\ ms[j].backup_id \in found
                                        /\ ms[j].parent_backup_id \in Ids(ms)}},
                   rounds - 1)

ProperAncestors(ms, backup_id) ==
    LET parent_id == Manifest(ms, backup_id).parent_backup_id
    IN  IF parent_id \in Ids(ms)
        THEN Ancestors(ms, {parent_id}, Len(ms))
        ELSE {}

NoRepeats(chain) ==
    \A i \in DOMAIN chain, j \in DOMAIN chain : chain[i] = chain[j] => i = j

C36_AcyclicParents ==
    \A b \in Ids(manifests) :
        /\ b \notin ProperAncestors(manifests, b)
        /\ RestoreChain(manifests, b, TRUE) # <<>>
        /\ NoRepeats(RestoreChain(manifests, b, TRUE))

(***************************************************************************)
(* C37. Referential integrity of operations: after any sequence of         *)
(* create_rollback_point, delete_rollback_point, initiate_rollback and     *)
(* cancel_rollback calls, every RollbackOperation's target point id, and   *)
(* its pre-rollback checkpoint id when present, refer to a rollback point  *)
(* that is still in the point index.                                       *)
(***************************************************************************)
C37_OperationsRefer ==
    \A o \in DOMAIN operations :
        LET op == opObj[operations[o]]
        IN  /\ op.point_id \in DOMAIN rollback_points
            /\ op.pre_rollback_point # NoId
                   => op.pre_rollback_point \in DOMAIN rollback_points

(***************************************************************************)
(* C38. Record creation never overwrites: every successful                 *)
(* create_rollback_point call (the auto-checkpoint inside                  *)
(* initiate_rollback included) and every initiate_rollback call produces   *)
(* an identifier different from all identifiers in the respective index,   *)
(* so the index grows by exactly one record and no record is replaced,     *)
(* even when two calls use the same name or point within one clock         *)
(* reading.                                                                *)
(***************************************************************************)
PointsGrowByOne ==
    /\ Cardinality(DOMAIN rollback_points')
           = Cardinality(DOMAIN rollback_points) + 1
    /\ \A p \in DOMAIN rollback_points :
           rollback_points'[p] = rollback_points[p]

OperationsGrowByOne ==
    /\ Cardinality(DOMAIN operations') = Cardinality(DOMAIN operations) + 1
    /\ \A o \in DOMAIN operations : operations'[o] = operations[o]

C38_NoOverwrite ==
    [][/\ \A n \in UserNames, inp \in FilesystemInputs :
              CreateRollbackPoint(n, inp) => PointsGrowByOne
       /\ \A t \in Threads : CreateCheckpoint(t) => PointsGrowByOne
       /\ Len(opObj') = Len(opObj) + 1 => OperationsGrowByOne]_vars

Protected(sys) ==
    {sys.last_known_good, sys.current_snapshot} \cap DOMAIN sys.snapshots

(***************************************************************************)
(* C39.  Over create_snapshot, delete_snapshot, cleanup_old_snapshots,     *)
(* mark_as_last_known_good and rollback_to_snapshot of the SnapshotSystem, *)
(* the last-known-good id, once set, is the id of a snapshot in the index; *)
(* delete_snapshot of the last-known-good or the current snapshot returns  *)
(* False and removes nothing; cleanup_old_snapshots deletes neither.       *)
(***************************************************************************)
C39_LastKnownGoodKept ==
    [][/\ system'.last_known_good # NoSystemSnapshot
           => system'.last_known_good \in DOMAIN system'.snapshots
       /\ \A id \in Protected(system) :
              (sysres'.call = "delete" /\ SystemDeleteSnapshot(id))
                  => /\ sysres'.result = "False"
                     /\ system'.snapshots = system.snapshots
       /\ \A keep_count \in 0..MaxKeep :
              (sysres'.call = "cleanup" /\ SystemCleanupOldSnapshots(keep_count))
                  => Protected(system) \subseteq DOMAIN system'.snapshots]_vars

\* delete_snapshot of the last-known-good snapshot was refused, and a
\* snapshot that is not protected exists beside it.
C39_Witness ==
    /\ sysres.call = "delete"
    /\ sysres.arg = system.last_known_good
    /\ sysres.result = "False"
    /\ system.last_known_good \in DOMAIN system.snapshots
    /\ DOMAIN system.snapshots # {system.last_known_good}

\* rollback_to_snapshot(snapshot_id) returned True with a pre-rollback
\* snapshot stored as a record of its own beside the unchanged target.
PreRollbackBeside(snapshot_id) ==
    /\ snapshot_id \in DOMAIN system.snapshots
    /\ system.snapshots[snapshot_id].status = "complete"
    /\ snapshot_id \in DOMAIN system'.snapshots
    /\ system'.snapshots[snapshot_id] = system.snapshots[snapshot_id]
    /\ \E pre \in DOMAIN system'.snapshots \ DOMAIN system.snapshots :
           /\ pre # snapshot_id
           /\ system'.snapshots[pre].name
                  = PreRollbackOf(system.snapshots[snapshot_id].name)

(***************************************************************************)
(* C40.  rollback_to_snapshot returns True only if the target is in the    *)
(* index with status COMPLETE and a pre-rollback snapshot was created as a *)
(* record distinct from the target, whose record is neither replaced nor   *)
(* altered; it returns False if the target is unknown or not COMPLETE or   *)
(* the pre-rollback snapshot cannot be created.                            *)
(***************************************************************************)
C40_RollbackGuarded ==
    [][\A id \in SystemArgs, fail \in BOOLEAN :
           RollbackToSnapshot(id, fail)
               => /\ sysres'.result = "True" => PreRollbackBeside(id)
                  /\ (\/ id \notin DOMAIN system.snapshots
                      \/ system.snapshots[id].status # "complete"
                      \/ fail) => sysres'.result = "False"]_vars

\* The same, for the calls made at a later reading of the clock than the one
\* the target and every other snapshot were created at.
C40_LaterSecond ==
    [][\A id \in SystemArgs, fail \in BOOLEAN :
           (/\ SystemSnapshotId(now) \notin DOMAIN system.snapshots
            /\ RollbackToSnapshot(id, fail))
               => /\ sysres'.result = "True" => PreRollbackBeside(id)
                  /\ (\/ id \notin DOMAIN system.snapshots
                      \/ system.snapshots[id].status # "complete"
                      \/ fail) => sysres'.result = "False"]_vars

====
